---- MODULE Spec2Model ----
(***************************************************************************)
(* Campaign / schedule management of the dashboard application (app.py):   *)
(* the campaign store, the schedule store and the request handlers         *)
(* create_campaign, update_campaign, delete_campaign and create_schedule,  *)
(* together with the Python conversions they rely on (int(), strptime      *)
(* with '%H:%M', the Boolean column binding).                              *)
(*                                                                         *)
(* Request bodies are JSON values.  A JSON scalar is a record              *)
(*   [t |-> type tag, n |-> number, s |-> sequence of characters]          *)
(* (a float carries its value in tenths in n).  A JSON object (a Python    *)
(* dict) is a function from its keys to JSON scalars.                      *)
(***************************************************************************)
EXTENDS Integers, Sequences, FiniteSets, TLC

VARIABLES users, campaigns, schedules, nextCampaignId, nextScheduleId, last,
          tx, locations, nextLocationId, sessions

vars == <<users, campaigns, schedules, nextCampaignId, nextScheduleId, last,
          tx, locations, nextLocationId, sessions>>

\* what the campaign and schedule handlers, run as a whole, leave alone: the
\* transaction in flight, the location table and the session cookies issued
elsewhere == <<tx, locations, nextLocationId, sessions>>

stores == <<users, campaigns, schedules>>

(***************************************************************************)
(* Bounds of the model.                                                    *)
(***************************************************************************)
MaxCampaigns == 2

MaxSchedules == 2

MaxBatch == 2

\* locations created
MaxLocations == 2

\* users registered
MaxRegistrations == 1

(***************************************************************************)
(* JSON values.                                                            *)
(***************************************************************************)
JInt(i) == [t |-> "int", n |-> i, s |-> <<>>]

JFloat(tenths) == [t |-> "float", n |-> tenths, s |-> <<>>]

JBool(b) == [t |-> "bool", n |-> IF b THEN 1 ELSE 0, s |-> <<>>]

JStr(chars) == [t |-> "str", n |-> 0, s |-> chars]

JNull == [t |-> "null", n |-> 0, s |-> <<>>]

\* request.get_json(): either None or a dict
\* the empty dict {}
EmptyDict == [k \in {} |-> JNull]

NoBody == [null |-> TRUE, obj |-> EmptyDict]

Dict(f) == [null |-> FALSE, obj |-> f]

\* a Python value that is not a dict (a list element such as 5)
NotADict == [isdict |-> FALSE, obj |-> EmptyDict]

Item(f) == [isdict |-> TRUE, obj |-> f]

Has(d, k) == k \in DOMAIN d

\* dict.get(key, default)
Get(d, k, default) == IF Has(d, k) THEN d[k] ELSE default

\* f restricted to the keys in K
Restrict(f, K) == [k \in (DOMAIN f) \cap K |-> f[k]]

(***************************************************************************)
(* Python conversions.                                                     *)
(***************************************************************************)
Digits == {"0", "1", "2", "3", "4", "5", "6", "7", "8", "9"}

DigitVal == [c \in Digits |->
               CASE c = "0" -> 0 [] c = "1" -> 1 [] c = "2" -> 2 [] c = "3" -> 3
                 [] c = "4" -> 4 [] c = "5" -> 5 [] c = "6" -> 6 [] c = "7" -> 7
                 [] c = "8" -> 8 [] c = "9" -> 9]

RECURSIVE DecimalValue(_)
DecimalValue(cs) ==
    IF cs = <<>> THEN 0
    ELSE 10 * DecimalValue(SubSeq(cs, 1, Len(cs) - 1)) + DigitVal[cs[Len(cs)]]

AllDigits(cs) == Len(cs) > 0 /\ \A i \in 1..Len(cs) : cs[i] \in Digits

RECURSIVE Strip(_)
Strip(cs) ==
    IF cs = <<>> THEN cs
    ELSE IF Head(cs) = " " THEN Strip(Tail(cs))
    ELSE IF cs[Len(cs)] = " " THEN Strip(SubSeq(cs, 1, Len(cs) - 1))
    ELSE cs

Ok(v) == [ok |-> TRUE, exc |-> "", v |-> v]

Raise(e) == [ok |-> FALSE, exc |-> e, v |-> 0]

\* d[k]: the value, or KeyError
Subscript(d, k) == IF k \in DOMAIN d THEN Ok(d[k]) ELSE Raise("KeyError")

\* int(str): surrounding blanks, an optional sign, decimal digits
IntOfStr(cs) ==
    LET body == Strip(cs)
        signed == body # <<>> /\ Head(body) \in {"+", "-"}
        digs == IF signed THEN Tail(body) ELSE body
    IN  IF ~AllDigits(digs) THEN Raise("ValueError")
        ELSE IF signed /\ Head(body) = "-" THEN Ok(0 - DecimalValue(digs))
        ELSE Ok(DecimalValue(digs))

\* int(float) truncates toward zero; the float is given in tenths
Trunc(tenths) == IF tenths >= 0 THEN tenths \div 10 ELSE 0 - ((0 - tenths) \div 10)

\* Python's int(x) on a JSON value
PyInt(x) ==
    CASE x.t = "int" -> Ok(x.n)
      [] x.t = "bool" -> Ok(x.n)
      [] x.t = "float" -> Ok(Trunc(x.n))
      [] x.t = "str" -> IntOfStr(x.s)
      [] OTHER -> Raise("TypeError")

\* the regular expression that '%H:%M' compiles to is
\*   (?P<H>2[0-3]|[0-1]\d|\d):(?P<M>[0-5]\d|\d)
\* HAlt / MAlt: the alternatives in order, as <<length, predicate on the text>>
HAlt(cs, i, alt) ==
    CASE alt = 1 -> Len(cs) >= i + 1 /\ cs[i] = "2" /\ cs[i + 1] \in {"0", "1", "2", "3"}
      [] alt = 2 -> Len(cs) >= i + 1 /\ cs[i] \in {"0", "1"} /\ cs[i + 1] \in Digits
      [] OTHER -> Len(cs) >= i /\ cs[i] \in Digits

HLen(alt) == IF alt = 3 THEN 1 ELSE 2

MAlt(cs, i, alt) ==
    CASE alt = 1 -> Len(cs) >= i + 1 /\ cs[i] \in {"0", "1", "2", "3", "4", "5"}
                     /\ cs[i + 1] \in Digits
      [] OTHER -> Len(cs) >= i /\ cs[i] \in Digits

MLen(alt) == IF alt = 2 THEN 1 ELSE 2

\* one way of matching a prefix of cs: H alternative ha, then ":", then M alternative ma
PrefixMatch(cs, ha, ma) ==
    /\ HAlt(cs, 1, ha)
    /\ Len(cs) >= HLen(ha) + 1
    /\ cs[HLen(ha) + 1] = ":"
    /\ MAlt(cs, HLen(ha) + 2, ma)

\* alternatives in the order the regular-expression engine tries them
MatchOrder == << <<1, 1>>, <<1, 2>>, <<2, 1>>, <<2, 2>>, <<3, 1>>, <<3, 2>> >>

\* the first alternative, from position k of MatchOrder on, that matches; 0 if none
RECURSIVE FirstMatch(_, _)
FirstMatch(cs, k) ==
    IF k > Len(MatchOrder) THEN 0
    ELSE IF PrefixMatch(cs, MatchOrder[k][1], MatchOrder[k][2]) THEN k
    ELSE FirstMatch(cs, k + 1)

\* datetime.strptime(x, '%H:%M').time() on a JSON value: the time as <<hour, minute>>
Strptime(x) ==
    IF x.t # "str" THEN Raise("TypeError")
    ELSE LET k == FirstMatch(x.s, 1)
             hl == HLen(MatchOrder[k][1])
             ml == MLen(MatchOrder[k][2])
         IN  \* no match: "does not match format"
             IF k = 0 THEN Raise("ValueError")
             \* a match that stops short: "unconverted data remains"
             ELSE IF hl + 1 + ml # Len(x.s) THEN Raise("ValueError")
             ELSE Ok(<<DecimalValue(SubSeq(x.s, 1, hl)),
                       DecimalValue(SubSeq(x.s, hl + 2, hl + 1 + ml))>>)

\* strptime(d[k], '%H:%M') and int(d[k]): the call is made unless the subscript raised
StrptimeOf(r) == IF r.ok THEN Strptime(r.v) ELSE r

IntOf(r) == IF r.ok THEN PyInt(r.v) ELSE r

\* Boolean column binding: None, True, False (and 0, 1, which equal them) pass
BooleanAccepts(x) == x.t \in {"bool", "null"} \/ (x.t = "int" /\ x.n \in {0, 1})

(***************************************************************************)
(* Identities.  login_required lets a request through only when the        *)
(* session holds a user_id; Anonymous stands for a request without one.    *)
(***************************************************************************)
Anonymous == 0

\* a null foreign key (client_id = None)
None == 0

UserIds == {1, 2, 3, 4}

is_admin(user) == user.role = "admin"

(***************************************************************************)
(* Response messages, as the handlers word them.                           *)
(***************************************************************************)
LoginRedirect == "redirect: login"

MissingField == "Campaign ID, day of week, start time and end time are required"

CampaignNotFound == "Campaign not found"

InvalidTimeFormat == "Invalid time format. Use HH:MM."

InvalidDayOfWeek == "day_of_week must be an integer between 0 (Monday) and 6 (Sunday)"

FailedCreateSchedule == "Failed to create schedule"

NameRequired == "Campaign name is required"

FailedCreateCampaign == "Failed to create campaign"

PermissionDenied == "Permission denied"

FailedUpdateCampaign == "Failed to update campaign"

FailedDeleteCampaign == "Failed to delete campaign"

StatusDraft == <<"draft">>

Reply(status, error, activity, out) ==
    [status |-> status, error |-> error, activity |-> activity, out |-> out]

Request(op, u, req, reply) ==
    [op |-> op, user |-> u, req |-> req, status |-> reply.status,
     error |-> reply.error, activity |-> reply.activity, out |-> reply.out]

NoOut == <<>>

(***************************************************************************)
(* Stores.                                                                 *)
(***************************************************************************)
\* a lookup that ignores the key
CampaignGetAny(x) == campaigns

\* Campaign.query.get(id): the campaigns with that primary key (none or one)
CampaignGet(x) == IF x.t = "int" THEN {c \in campaigns : c.id = x.n} ELSE {}

CampaignIds == {c.id : c \in campaigns}

ScheduleKeys == {"campaign_id", "day_of_week", "start_time", "end_time"}

\* a row that ignores the is_active it is given
CampaignScheduleAlwaysActive(id, campaign_id, day_of_week, start_time, end_time, is_active) ==
    [id |-> id, campaign_id |-> campaign_id, day_of_week |-> day_of_week,
     start_time |-> start_time, end_time |-> end_time, is_active |-> TRUE]

CampaignSchedule(id, campaign_id, day_of_week, start_time, end_time, is_active) ==
    [id |-> id, campaign_id |-> campaign_id, day_of_week |-> day_of_week,
     start_time |-> start_time, end_time |-> end_time,
     is_active |-> IF is_active.t = "null" THEN TRUE ELSE is_active.n = 1]

\* a DateTime column that is NULL; a date is <<year, month, day>>
NoDate == <<>>

\* start_date and end_date are nullable columns without a default
Campaign(id, name, status, created_by, client_id) ==
    [id |-> id, name |-> name, status |-> status, created_by |-> created_by,
     client_id |-> client_id, start_date |-> NoDate, end_date |-> NoDate]

WithDates(campaign, start_date, end_date) ==
    [campaign EXCEPT !.start_date = start_date, !.end_date = end_date]

DigitChar == <<"0", "1", "2", "3", "4", "5", "6", "7", "8", "9">>

\* '%02d' % n
Pad2(n) == <<DigitChar[((n \div 10) % 10) + 1], DigitChar[(n % 10) + 1]>>

\* '%04d' % n
Pad4(n) == Pad2(n \div 100) \o Pad2(n % 100)

\* datetime.isoformat() of a DateTime column whose time is midnight
isoformat(d) ==
    Pad4(d[1]) \o <<"-">> \o Pad2(d[2]) \o <<"-">> \o Pad2(d[3])
    \o <<"T", "0", "0", ":", "0", "0", ":", "0", "0">>

\* x.isoformat() if x else None; the empty string stands for null
isoformat_or_none(d) == IF d = NoDate THEN <<>> ELSE isoformat(d)

\* no request of create_campaign is between its flush and its commit
NoTx == [phase |-> "idle", user |-> Anonymous, body |-> NoBody, items |-> <<>>,
         campaign |-> Campaign(0, <<>>, <<>>, 0, None), i |-> 0]

PwAdmin == <<"a", "d", "m", "i", "n", "1", "2", "3">>

PwClient == <<"c", "l", "i", "e", "n", "t", "1", "2", "3">>

PwViewer == <<"v", "i", "e", "w", "e", "r", "1", "2", "3">>

\* a row of the table users; password stands for the hash of that password
User(username, email, password, role) ==
    [username |-> username, email |-> email, password |-> password, role |-> role,
     is_active |-> TRUE]

\* the demo accounts admin, client1 and viewer1, and a second client
Init ==
    /\ users = [u \in UserIds |->
                  CASE u = 1 -> User("admin", "admin@x", PwAdmin, "admin")
                    [] u = 2 -> User("client1", "client1@x", PwClient, "client")
                    [] u = 4 -> User("client2", "client2@x", PwClient, "client")
                    [] OTHER -> User("viewer1", "viewer1@x", PwViewer, "viewer")]
    /\ campaigns = {}
    /\ schedules = {}
    /\ nextCampaignId = 1
    /\ nextScheduleId = 1
    /\ last = Request("init", Anonymous, NoOut, Reply(0, "", "", NoOut))
    /\ tx = NoTx
    /\ locations = {}
    /\ nextLocationId = 1
    /\ sessions = {}

(***************************************************************************)
(* POST /api/schedule                                                      *)
(***************************************************************************)
\* the first exception raised by evaluating the results in order, "" if none
FirstExc(results) ==
    LET bad == {i \in 1..Len(results) : ~results[i].ok}
    IN  IF bad = {} THEN ""
        ELSE results[CHOOSE i \in bad : \A j \in bad : i <= j].exc

\* not data or one of the four keys not in data
missing_fields_lenient(body) == body.null \/ DOMAIN body.obj = {}

missing_fields(body) ==
    body.null \/ DOMAIN body.obj = {} \/ ~(ScheduleKeys \subseteq DOMAIN body.obj)

\* not (0 <= day_of_week_int <= 6) of create_schedule, negated
schedule_day_shifted(day_of_week_int) == 1 <= day_of_week_int /\ day_of_week_int <= 7

schedule_day_ok(day_of_week_int) == 0 <= day_of_week_int /\ day_of_week_int <= 6

\* a create_schedule that asks the caller for the rights update_campaign asks for
create_schedule_owner_only(u, body) ==
    LET data == body.obj
        campaign_id == Subscript(data, "campaign_id")
        campaign == CampaignGet(campaign_id.v)
        start_time_obj == StrptimeOf(Subscript(data, "start_time"))
        end_time_obj == StrptimeOf(Subscript(data, "end_time"))
        time_exc == FirstExc(<<start_time_obj, end_time_obj>>)
        day_of_week_int == IntOf(Subscript(data, "day_of_week"))
        is_active == Get(data, "is_active", JBool(TRUE))
        schedule == CampaignSchedule(nextScheduleId, campaign_id.v.n,
                                     day_of_week_int.v, start_time_obj.v,
                                     end_time_obj.v, is_active)
    IN  IF u = Anonymous THEN Reply(302, LoginRedirect, "", NoOut)
        ELSE IF missing_fields(body) THEN Reply(400, MissingField, "", NoOut)
        ELSE IF ~campaign_id.ok THEN Reply(500, FailedCreateSchedule, "", NoOut)
        ELSE IF campaign = {} THEN Reply(404, CampaignNotFound, "", NoOut)
        ELSE IF /\ ~is_admin(users[u])
                /\ \A c \in campaign : c.created_by # u /\ c.client_id # u
            THEN Reply(403, PermissionDenied, "", NoOut)
        ELSE IF time_exc = "ValueError" THEN Reply(400, InvalidTimeFormat, "", NoOut)
        ELSE IF time_exc # "" THEN Reply(500, FailedCreateSchedule, "", NoOut)
        ELSE IF ~day_of_week_int.ok THEN Reply(500, FailedCreateSchedule, "", NoOut)
        ELSE IF ~schedule_day_ok(day_of_week_int.v)
            THEN Reply(400, InvalidDayOfWeek, "", NoOut)
        ELSE IF ~BooleanAccepts(is_active) THEN Reply(500, FailedCreateSchedule, "", NoOut)
        ELSE Reply(201, "", "schedule_created", schedule)

create_schedule(u, body) ==
    LET data == body.obj
        campaign_id == Subscript(data, "campaign_id")
        campaign == CampaignGet(campaign_id.v)
        start_time_obj == StrptimeOf(Subscript(data, "start_time"))
        end_time_obj == StrptimeOf(Subscript(data, "end_time"))
        time_exc == FirstExc(<<start_time_obj, end_time_obj>>)
        day_of_week_int == IntOf(Subscript(data, "day_of_week"))
        is_active == Get(data, "is_active", JBool(TRUE))
        schedule == CampaignSchedule(nextScheduleId, campaign_id.v.n,
                                     day_of_week_int.v, start_time_obj.v,
                                     end_time_obj.v, is_active)
    IN  IF u = Anonymous THEN Reply(302, LoginRedirect, "", NoOut)
        ELSE IF missing_fields(body) THEN Reply(400, MissingField, "", NoOut)
        ELSE IF ~campaign_id.ok THEN Reply(500, FailedCreateSchedule, "", NoOut)
        ELSE IF campaign = {} THEN Reply(404, CampaignNotFound, "", NoOut)
        ELSE IF time_exc = "ValueError" THEN Reply(400, InvalidTimeFormat, "", NoOut)
        ELSE IF time_exc # "" THEN Reply(500, FailedCreateSchedule, "", NoOut)
        ELSE IF ~day_of_week_int.ok THEN Reply(500, FailedCreateSchedule, "", NoOut)
        ELSE IF ~schedule_day_ok(day_of_week_int.v)
            THEN Reply(400, InvalidDayOfWeek, "", NoOut)
        \* commit: is_active is bound
        ELSE IF ~BooleanAccepts(is_active) THEN Reply(500, FailedCreateSchedule, "", NoOut)
        ELSE Reply(201, "", "schedule_created", schedule)

CreateSchedule(u, body) ==
    \E reply \in {create_schedule(u, body)} :
        /\ last' = Request("create_schedule", u, body, reply)
        /\ IF reply.status = 201
             THEN /\ schedules' = schedules \cup {reply.out}
                  /\ nextScheduleId' = nextScheduleId + 1
             ELSE UNCHANGED <<schedules, nextScheduleId>>
        /\ UNCHANGED <<users, campaigns, nextCampaignId, elsewhere>>

(***************************************************************************)
(* POST /api/campaigns                                                     *)
(***************************************************************************)
\* not (0 <= day_of_week_int <= 6) of the batch loop, negated
item_day_unbounded(day_of_week_int) == 0 <= day_of_week_int

item_day_ok(day_of_week_int) == 0 <= day_of_week_int /\ day_of_week_int <= 6

\* one pass of the loop over data['schedules']: what happens to one item
\*   "added"      db.session.add(schedule)
\*   "skipped"    day_of_week outside 0..6 (continue)
\*   "KeyError" / "ValueError" / "Exception"   the except clause that swallowed it
schedule_item_outcome(schedule_item) ==
    LET item == schedule_item.obj
        start_time_obj == StrptimeOf(Subscript(item, "start_time"))
        end_time_obj == StrptimeOf(Subscript(item, "end_time"))
        day_of_week_int == IntOf(Subscript(item, "day_of_week"))
        exc == FirstExc(<<start_time_obj, end_time_obj, day_of_week_int>>)
    IN  \* subscripting a value that is no dict is a TypeError
        IF ~schedule_item.isdict THEN "Exception"
        ELSE IF exc \in {"KeyError", "ValueError"} THEN exc
        ELSE IF exc # "" THEN "Exception"
        ELSE IF ~item_day_ok(day_of_week_int.v) THEN "skipped"
        ELSE "added"

\* the indices of the items the loop adds to the session, in input order
RECURSIVE AddedItems(_, _)
AddedItems(schedule_data, i) ==
    IF i > Len(schedule_data) THEN <<>>
    ELSE IF schedule_item_outcome(schedule_data[i]) = "added"
        THEN <<i>> \o AddedItems(schedule_data, i + 1)
    ELSE AddedItems(schedule_data, i + 1)

\* a loop that takes the campaign from the item when the item names one
schedule_of_item_trusting(schedule_item, id, campaign_id) ==
    CampaignSchedule(id, Get(schedule_item.obj, "campaign_id", JInt(campaign_id)).n,
                     PyInt(schedule_item.obj["day_of_week"]).v,
                     Strptime(schedule_item.obj["start_time"]).v,
                     Strptime(schedule_item.obj["end_time"]).v,
                     Get(schedule_item.obj, "is_active", JBool(TRUE)))

\* the schedule built from an item that passed, for the flushed campaign id
schedule_of_item(schedule_item, id, campaign_id) ==
    CampaignSchedule(id, campaign_id,
                     PyInt(schedule_item.obj["day_of_week"]).v,
                     Strptime(schedule_item.obj["start_time"]).v,
                     Strptime(schedule_item.obj["end_time"]).v,
                     Get(schedule_item.obj, "is_active", JBool(TRUE)))

\* `not x` for a JSON value used as an id
Falsy(x) == x.t = "null" \/ (x.t \in {"int", "bool", "float"} /\ x.n = 0)
              \/ (x.t = "str" /\ x.s = <<>>)

\* datetime.fromisoformat on a string that is a date without a time part,
\* YYYY-MM-DD, or no ISO 8601 string at all (the strings the requests carry)
fromisoformat(cs) ==
    LET year == DecimalValue(SubSeq(cs, 1, 4))
        month == DecimalValue(SubSeq(cs, 6, 7))
        day == DecimalValue(SubSeq(cs, 9, 10))
    IN  IF ~(/\ Len(cs) = 10
             /\ \A i \in {1, 2, 3, 4, 6, 7, 9, 10} : cs[i] \in Digits
             /\ cs[5] = "-" /\ cs[8] = "-")
            THEN Raise("ValueError")
        ELSE IF year < 1 \/ month < 1 \/ month > 12 THEN Raise("ValueError")
        ELSE IF day < 1 \/ day > (IF month = 2
                                     THEN (IF year % 4 = 0 /\ (year % 100 # 0 \/ year % 400 = 0)
                                           THEN 29 ELSE 28)
                                   ELSE IF month \in {4, 6, 9, 11} THEN 30 ELSE 31)
            THEN Raise("ValueError")
        ELSE Ok(<<year, month, day>>)

\* s.replace('Z', '+00:00')
RECURSIVE replace_Z(_)
replace_Z(cs) ==
    IF cs = <<>> THEN cs
    ELSE (IF Head(cs) = "Z" THEN <<"+", "0", "0", ":", "0", "0">> ELSE <<Head(cs)>>)
         \o replace_Z(Tail(cs))

\* datetime.fromisoformat(x.replace('Z', '+00:00')): a value that is no string
\* has no replace
parse_date(x) ==
    IF x.t # "str" THEN Raise("AttributeError") ELSE fromisoformat(replace_Z(x.s))

\* if data.get(key): campaign.<key> = datetime.fromisoformat(...)
date_on_create(data, key) ==
    IF ~Has(data, key) \/ Falsy(data[key]) THEN Ok(NoDate) ELSE parse_date(data[key])

\* if key in data: campaign.<key> = datetime.fromisoformat(...) if data[key] else None
date_on_update(data, key, current) ==
    IF ~Has(data, key) THEN Ok(current)
    ELSE IF Falsy(data[key]) THEN Ok(NoDate)
    ELSE parse_date(data[key])

\* data holds the scalar fields of the body, schedule_data is data.get('schedules')
create_campaign(u, body, schedule_data) ==
    LET data == body.obj
        user == users[u]
        given_client == Get(data, "client_id", JNull)
        client_id == IF user.role = "client" /\ Falsy(given_client) THEN u
                     ELSE IF given_client.t = "null" THEN None ELSE given_client.n
        start_date == date_on_create(data, "start_date")
        end_date == date_on_create(data, "end_date")
        campaign == WithDates(Campaign(nextCampaignId, data["name"].s,
                                       Get(data, "status", JStr(StatusDraft)).s,
                                       u, client_id),
                              start_date.v, end_date.v)
        added == AddedItems(schedule_data, 1)
        new_schedules == {schedule_of_item(schedule_data[added[k]],
                                           nextScheduleId + k - 1, nextCampaignId)
                            : k \in 1..Len(added)}
        outcomes == [i \in 1..Len(schedule_data) |->
                        schedule_item_outcome(schedule_data[i])]
        binds == \A k \in 1..Len(added) :
                    BooleanAccepts(Get(schedule_data[added[k]].obj, "is_active",
                                       JBool(TRUE)))
    IN  IF u = Anonymous THEN Reply(302, LoginRedirect, "", NoOut)
        ELSE IF body.null \/ DOMAIN data = {} \/ ~Has(data, "name")
            THEN Reply(400, NameRequired, "", NoOut)
        \* a date that does not parse raises before the campaign is added
        ELSE IF ~start_date.ok \/ ~end_date.ok
            THEN Reply(500, FailedCreateCampaign, "", NoOut)
        \* flush: name is NOT NULL (a name is a string or null)
        ELSE IF data["name"].t = "null" THEN Reply(500, FailedCreateCampaign, "", NoOut)
        \* commit: every added schedule is bound
        ELSE IF ~binds
            THEN Reply(500, FailedCreateCampaign, "",
                       [campaign |-> campaign, outcomes |-> outcomes, schedules |-> {}])
        ELSE Reply(201, "", "campaign_created",
                   [campaign |-> campaign, outcomes |-> outcomes,
                    schedules |-> new_schedules])

CreateCampaign(u, body, schedule_data) ==
    \E reply \in {create_campaign(u, body, schedule_data)} :
        /\ last' = Request("create_campaign", u,
                           [body |-> body, schedules |-> schedule_data], reply)
        /\ IF reply.status = 201
             THEN /\ campaigns' = campaigns \cup {reply.out.campaign}
                  /\ schedules' = schedules \cup reply.out.schedules
                  /\ nextCampaignId' = nextCampaignId + 1
                  /\ nextScheduleId' = nextScheduleId + Cardinality(reply.out.schedules)
             ELSE UNCHANGED <<campaigns, schedules, nextCampaignId, nextScheduleId>>
        /\ UNCHANGED <<users, elsewhere>>

(***************************************************************************)
(* PUT and DELETE /api/campaigns/<int:campaign_id>                         *)
(***************************************************************************)
\* a check that lets every logged-in caller through
may_modify_anyone(user_id, campaign) == TRUE

\* the owner-or-admin check both handlers make
may_modify(user_id, campaign) ==
    \/ is_admin(users[user_id])
    \/ campaign.created_by = user_id
    \/ campaign.client_id = user_id

update_campaign(u, campaign_id, body) ==
    LET data == body.obj
        found == {c \in campaigns : c.id = campaign_id}
        campaign == CHOOSE c \in found : TRUE
        name == IF Has(data, "name") THEN data["name"] ELSE JStr(campaign.name)
        client == IF ~Has(data, "client_id") THEN campaign.client_id
                  ELSE IF data["client_id"].t = "null" THEN None
                  ELSE data["client_id"].n
        status == Get(data, "status", JStr(campaign.status))
        start_date == date_on_update(data, "start_date", campaign.start_date)
        end_date == date_on_update(data, "end_date", campaign.end_date)
        updated == WithDates(Campaign(campaign.id, name.s, status.s,
                                      campaign.created_by, client),
                             start_date.v, end_date.v)
    IN  IF u = Anonymous THEN Reply(302, LoginRedirect, "", NoOut)
        \* get_or_404 aborts inside the try block
        ELSE IF found = {} THEN Reply(500, FailedUpdateCampaign, "", NoOut)
        ELSE IF ~may_modify(u, campaign) THEN Reply(403, PermissionDenied, "", NoOut)
        \* 'name' in None
        ELSE IF body.null THEN Reply(500, FailedUpdateCampaign, "", NoOut)
        \* commit: name and status are NOT NULL (each is a string or null)
        ELSE IF name.t = "null" \/ status.t = "null"
            THEN Reply(500, FailedUpdateCampaign, "", NoOut)
        \* a date that does not parse raises before the commit
        ELSE IF ~start_date.ok \/ ~end_date.ok
            THEN Reply(500, FailedUpdateCampaign, "", NoOut)
        ELSE Reply(200, "", "campaign_updated", updated)

UpdateCampaign(u, campaign_id, body) ==
    \E reply \in {update_campaign(u, campaign_id, body)} :
        /\ last' = Request("update_campaign", u,
                           [campaign_id |-> campaign_id, body |-> body], reply)
        /\ IF reply.status = 200
             THEN campaigns' = {c \in campaigns : c.id # campaign_id} \cup {reply.out}
             ELSE UNCHANGED campaigns
        /\ UNCHANGED <<users, schedules, nextCampaignId, nextScheduleId, elsewhere>>

delete_campaign(u, campaign_id) ==
    LET found == {c \in campaigns : c.id = campaign_id}
        campaign == CHOOSE c \in found : TRUE
    IN  IF u = Anonymous THEN Reply(302, LoginRedirect, "", NoOut)
        ELSE IF found = {} THEN Reply(500, FailedDeleteCampaign, "", NoOut)
        ELSE IF ~may_modify(u, campaign) THEN Reply(403, PermissionDenied, "", NoOut)
        ELSE Reply(200, "", "campaign_deleted", campaign)

\* a delete that leaves the children behind
cascade_none(campaign) == schedules

\* a delete that takes every campaign's children
cascade_all(campaign) == {}

\* db.session.delete(campaign): the relationship cascade deletes its schedules
cascade_delete(campaign) == {s \in schedules : s.campaign_id # campaign.id}

DeleteCampaign(u, campaign_id) ==
    \E reply \in {delete_campaign(u, campaign_id)} :
        /\ last' = Request("delete_campaign", u, [campaign_id |-> campaign_id], reply)
        /\ IF reply.status = 200
             THEN /\ campaigns' = campaigns \ {reply.out}
                  /\ schedules' = cascade_delete(reply.out)
             ELSE UNCHANGED <<campaigns, schedules>>
        /\ UNCHANGED <<users, nextCampaignId, nextScheduleId, elsewhere>>

(***************************************************************************)
(* A request for one schedule: /api/schedule/<id>.  The URL map holds the  *)
(* rule /api/schedule (GET, POST) only, so routing finds no rule and the   *)
(* 404 handler answers, whoever the caller is and whatever the method.     *)
(***************************************************************************)
NotFound == "Not found"

delete_schedule(u, schedule_id) == Reply(404, NotFound, "", NoOut)

DeleteSchedule(u, schedule_id) ==
    \E reply \in {delete_schedule(u, schedule_id)} :
        /\ last' = Request("delete_schedule", u, [schedule_id |-> schedule_id], reply)
        /\ UNCHANGED <<users, campaigns, schedules, nextCampaignId, nextScheduleId, elsewhere>>

(***************************************************************************)
(* GET /api/campaigns                                                      *)
(***************************************************************************)
StatusActive == <<"active">>

\* Campaign.to_dict(): creator and client are given by their user ids here
campaign_to_dict(campaign) ==
    [id |-> campaign.id, name |-> campaign.name, status |-> campaign.status,
     start_date |-> isoformat_or_none(campaign.start_date),
     end_date |-> isoformat_or_none(campaign.end_date),
     created_by |-> campaign.created_by, client |-> campaign.client_id]

\* a listing that shows every caller every campaign
visible_campaigns_all(u) == campaigns

\* the query get_campaigns runs for the caller's role
visible_campaigns(u) ==
    IF users[u].role = "admin" THEN campaigns
    ELSE IF users[u].role = "client" THEN {c \in campaigns : c.client_id = u}
    ELSE {c \in campaigns : c.status = StatusActive}

get_campaigns(u) ==
    IF u = Anonymous THEN Reply(302, LoginRedirect, "", NoOut)
    ELSE Reply(200, "", "campaigns_viewed",
               {campaign_to_dict(c) : c \in visible_campaigns(u)})

GetCampaigns(u) ==
    \E reply \in {get_campaigns(u)} :
        /\ last' = Request("get_campaigns", u, NoOut, reply)
        /\ UNCHANGED <<users, campaigns, schedules, nextCampaignId, nextScheduleId, elsewhere>>

(***************************************************************************)
(* GET /api/schedule                                                       *)
(***************************************************************************)
\* the regular expression that '%Y-%m-%d' compiles to is
\*   (?P<Y>\d\d\d\d)-(?P<m>1[0-2]|0[1-9]|[1-9])-(?P<d>3[0-1]|[1-2]\d|0[1-9]|[1-9]| [1-9])
\* MonthAlt / DayAlt: the alternatives in order
NonZeroDigits == Digits \ {"0"}

MonthAlt(cs, i, alt) ==
    CASE alt = 1 -> Len(cs) >= i + 1 /\ cs[i] = "1" /\ cs[i + 1] \in {"0", "1", "2"}
      [] alt = 2 -> Len(cs) >= i + 1 /\ cs[i] = "0" /\ cs[i + 1] \in NonZeroDigits
      [] OTHER -> Len(cs) >= i /\ cs[i] \in NonZeroDigits

MonthLen(alt) == IF alt = 3 THEN 1 ELSE 2

DayAlt(cs, i, alt) ==
    CASE alt = 1 -> Len(cs) >= i + 1 /\ cs[i] = "3" /\ cs[i + 1] \in {"0", "1"}
      [] alt = 2 -> Len(cs) >= i + 1 /\ cs[i] \in {"1", "2"} /\ cs[i + 1] \in Digits
      [] alt = 3 -> Len(cs) >= i + 1 /\ cs[i] = "0" /\ cs[i + 1] \in NonZeroDigits
      [] alt = 4 -> Len(cs) >= i /\ cs[i] \in NonZeroDigits
      [] OTHER -> Len(cs) >= i + 1 /\ cs[i] = " " /\ cs[i + 1] \in NonZeroDigits

DayLen(alt) == IF alt = 4 THEN 1 ELSE 2

\* the pattern matches a prefix of cs with month alternative ma and day alternative da
DatePrefixMatch(cs, ma, da) ==
    /\ Len(cs) >= 5
    /\ \A i \in 1..4 : cs[i] \in Digits
    /\ cs[5] = "-"
    /\ MonthAlt(cs, 6, ma)
    /\ Len(cs) >= 6 + MonthLen(ma) /\ cs[6 + MonthLen(ma)] = "-"
    /\ DayAlt(cs, 7 + MonthLen(ma), da)

\* the order in which backtracking tries the alternatives
DateMatchOrder == [k \in 1..15 |-> <<((k - 1) \div 5) + 1, ((k - 1) % 5) + 1>>]

RECURSIVE FirstDateMatch(_, _)
FirstDateMatch(cs, k) ==
    IF k > Len(DateMatchOrder) THEN 0
    ELSE IF DatePrefixMatch(cs, DateMatchOrder[k][1], DateMatchOrder[k][2]) THEN k
    ELSE FirstDateMatch(cs, k + 1)

\* the digits of a field, a leading blank dropped
FieldValue(cs) == DecimalValue(SelectSeq(cs, LAMBDA c : c \in Digits))

is_leap(year) == year % 4 = 0 /\ (year % 100 # 0 \/ year % 400 = 0)

days_in_month(year, month) ==
    IF month = 2 THEN (IF is_leap(year) THEN 29 ELSE 28)
    ELSE IF month \in {4, 6, 9, 11} THEN 30 ELSE 31

\* days in the year before the first day of the month
days_before_month(year, month) ==
    LET table == <<0, 31, 59, 90, 120, 151, 181, 212, 243, 273, 304, 334>>
    IN  table[month] + (IF month > 2 /\ is_leap(year) THEN 1 ELSE 0)

\* date.toordinal(): 0001-01-01 is day 1
toordinal(d) ==
    LET y == d.year - 1
    IN  y * 365 + (y \div 4) - (y \div 100) + (y \div 400)
          + days_before_month(d.year, d.month) + d.day

\* a weekday that calls Sunday 0
weekday_sunday_first(d) == toordinal(d) % 7

\* date.weekday(): Monday is 0, Sunday is 6
weekday(d) == (toordinal(d) + 6) % 7

\* datetime.strptime(x, '%Y-%m-%d').date() on a string
StrptimeDate(cs) ==
    LET k == FirstDateMatch(cs, 1)
        ml == MonthLen(DateMatchOrder[k][1])
        dl == DayLen(DateMatchOrder[k][2])
        year == DecimalValue(SubSeq(cs, 1, 4))
        month == FieldValue(SubSeq(cs, 6, 5 + ml))
        day == FieldValue(SubSeq(cs, 7 + ml, 6 + ml + dl))
    IN  \* no match: "does not match format"
        IF k = 0 THEN Raise("ValueError")
        \* a match that stops short: "unconverted data remains"
        ELSE IF 6 + ml + dl # Len(cs) THEN Raise("ValueError")
        \* "year 0 is out of range", "day is out of range for month"
        ELSE IF year < 1 \/ day > days_in_month(year, month) THEN Raise("ValueError")
        ELSE Ok([year |-> year, month |-> month, day |-> day])

InvalidDateFormat == "Invalid date format. Use YYYY-MM-DD."

days == <<"Monday", "Tuesday", "Wednesday", "Thursday", "Friday", "Saturday", "Sunday">>

\* a to_dict whose table starts on Sunday
to_dict_sunday_first(schedule) ==
    [id |-> schedule.id,
     campaign_id |-> schedule.campaign_id,
     day_of_week |-> schedule.day_of_week,
     day_name |-> IF 0 <= schedule.day_of_week /\ schedule.day_of_week <= 6
                  THEN days[((schedule.day_of_week + 6) % 7) + 1] ELSE "Unknown",
     start_time |-> schedule.start_time,
     end_time |-> schedule.end_time,
     is_active |-> schedule.is_active]

\* CampaignSchedule.to_dict(): the fields of the schedule and the name of its day
to_dict(schedule) ==
    [id |-> schedule.id,
     campaign_id |-> schedule.campaign_id,
     day_of_week |-> schedule.day_of_week,
     day_name |-> IF 0 <= schedule.day_of_week /\ schedule.day_of_week <= 6
                  THEN days[schedule.day_of_week + 1] ELSE "Unknown",
     start_time |-> schedule.start_time,
     end_time |-> schedule.end_time,
     is_active |-> schedule.is_active]

\* a client filter that shows every assigned campaign
client_filter_any(user_id, schedule, cs) ==
    \E c \in cs : c.id = schedule.campaign_id /\ c.client_id # None

\* query.join(Campaign).filter(Campaign.client_id == user.id)
client_filter(user_id, schedule, cs) ==
    \E c \in cs : c.id = schedule.campaign_id /\ c.client_id = user_id

\* a query that lists what is running only: active schedules of active campaigns
select_schedules_running(u, date_str, cs, ss) ==
    {s \in ss : /\ s.is_active
                /\ \E c \in cs : c.id = s.campaign_id /\ c.status = <<"active">>}

\* query.all(): the rows of the table ss, joined with the table cs for a client,
\* on the weekday of a date that parsed
select_schedules(u, date_str, cs, ss) ==
    LET dated == date_str.t = "str" /\ date_str.s # <<>>
        on_date == IF dated
                   THEN {s \in ss : s.day_of_week = weekday(StrptimeDate(date_str.s).v)}
                   ELSE ss
    IN  IF users[u].role = "client"
        THEN {s \in on_date : client_filter(u, s, cs)}
        ELSE on_date

\* a response that carries the campaign's name and status as they were when the
\* schedule was stored
campaign_details_stale(schedule, cs) ==
    [campaign_name |-> <<"A">>, campaign_status |-> <<"draft">>,
     campaign_start_date |-> <<>>, campaign_end_date |-> <<>>]

\* schedule.campaign, read when the response is built: its name, status and dates
campaign_details(schedule, cs) ==
    LET campaign == CHOOSE c \in cs : c.id = schedule.campaign_id
    IN  [campaign_name |-> campaign.name, campaign_status |-> campaign.status,
         campaign_start_date |-> isoformat_or_none(campaign.start_date),
         campaign_end_date |-> isoformat_or_none(campaign.end_date)]

\* schedule_dict: to_dict() and, if schedule.campaign, the campaign's fields
schedule_dict(schedule, cs) ==
    IF \E c \in cs : c.id = schedule.campaign_id
    THEN to_dict(schedule) @@ campaign_details(schedule, cs)
    ELSE to_dict(schedule)

\* date_str is request.args.get('date'): None or a string
get_schedules(u, date_str) ==
    LET user == users[u]
        dated == date_str.t = "str" /\ date_str.s # <<>>
        target_date == StrptimeDate(date_str.s)
        result == {schedule_dict(s, campaigns)
                     : s \in select_schedules(u, date_str, campaigns, schedules)}
    IN  IF u = Anonymous THEN Reply(302, LoginRedirect, "", NoOut)
        ELSE IF dated /\ ~target_date.ok THEN Reply(400, InvalidDateFormat, "", NoOut)
        ELSE Reply(200, "", "schedules_viewed",
                   [schedule |-> result, isAdmin |-> is_admin(user)])

GetSchedules(u, date_str) ==
    \E reply \in {get_schedules(u, date_str)} :
        /\ last' = Request("get_schedules", u, [date |-> date_str], reply)
        /\ UNCHANGED <<users, campaigns, schedules, nextCampaignId, nextScheduleId, elsewhere>>

(***************************************************************************)
(* The handlers on a storage that can fail.  campaigns and schedules hold  *)
(* what is committed; tx holds the request of create_campaign that is      *)
(* between db.session.flush() and db.session.commit().  A fault is what    *)
(* the storage does to the request: nothing, a commit that raises, or a    *)
(* write of the activity log that raises.                                  *)
(***************************************************************************)
Faults == {"none", "commit", "log"}

\* str(e) of the exception a failed commit raises
CommitError == "(sqlite3.OperationalError) database is locked"

\* a handler that copies the exception into the response
storage_failure_leaks(message, e) == Reply(500, e, "", NoOut)

\* except Exception as e: logger.error(...); db.session.rollback(); the fixed message
storage_failure(message, e) == Reply(500, message, "", NoOut)

\* a log_activity that lets the failed write reach the handler's except clause
log_activity_raises(reply, message, fault) ==
    IF fault = "log" THEN Reply(500, message, "", NoOut) ELSE reply

\* log_activity after the handler's commit: a failed write is logged, rolled back and
\* swallowed; the response is the handler's, the entry is missing
log_activity(reply, message, fault) ==
    IF fault = "log" THEN [reply EXCEPT !.activity = ""] ELSE reply

\* the handler from its entry to its response, given what its commit and its log
\* write do: faults only strike a request that reaches the commit
with_faults(reply, success, message, fault) ==
    IF reply.status # success THEN reply
    ELSE IF fault = "commit" THEN storage_failure(message, CommitError)
    ELSE log_activity(reply, message, fault)

CreateScheduleOnStorage(u, body, fault) ==
    /\ tx.phase = "idle"
    /\ \E reply \in {with_faults(create_schedule(u, body), 201,
                                 FailedCreateSchedule, fault)} :
        /\ last' = Request("create_schedule", u, [body |-> body, fault |-> fault], reply)
        /\ IF reply.status = 201
             THEN /\ schedules' = schedules \cup {reply.out}
                  /\ nextScheduleId' = nextScheduleId + 1
             ELSE UNCHANGED <<schedules, nextScheduleId>>
        /\ UNCHANGED <<users, campaigns, nextCampaignId, elsewhere>>

DeleteCampaignOnStorage(u, campaign_id, fault) ==
    /\ tx.phase = "idle"
    /\ \E reply \in {with_faults(delete_campaign(u, campaign_id), 200,
                                 FailedDeleteCampaign, fault)} :
        /\ last' = Request("delete_campaign", u,
                           [campaign_id |-> campaign_id, fault |-> fault], reply)
        /\ IF reply.status = 200
             THEN /\ campaigns' = campaigns \ {reply.out}
                  /\ schedules' = cascade_delete(reply.out)
             ELSE UNCHANGED <<campaigns, schedules>>
        /\ UNCHANGED <<users, nextCampaignId, nextScheduleId, elsewhere>>

\* a flush that commits the campaign row
flush_autocommit(campaign) == campaigns \cup {campaign}

\* db.session.add(campaign); db.session.flush(): the INSERT is sent inside the
\* transaction, the committed campaigns are what they were
flush(campaign) == campaigns

\* create_campaign up to the flush: the request is answered at once when it is
\* refused, otherwise it is in flight with its campaign row flushed
BeginCampaign(u, body, schedule_data) ==
    /\ tx.phase = "idle"
    /\ \E reply \in {create_campaign(u, body, schedule_data)} :
        /\ IF \/ reply.status \in {302, 400}
              \/ body.obj["name"].t = "null"
              \/ ~date_on_create(body.obj, "start_date").ok
              \/ ~date_on_create(body.obj, "end_date").ok
             THEN /\ last' = Request("create_campaign", u,
                                     [body |-> body, schedules |-> schedule_data,
                                      fault |-> "none"], reply)
                  /\ UNCHANGED <<tx, campaigns>>
             ELSE /\ tx' = [phase |-> "flushed", user |-> u, body |-> body,
                            items |-> schedule_data, campaign |-> reply.out.campaign,
                            i |-> 1]
                  /\ campaigns' = flush(reply.out.campaign)
                  /\ UNCHANGED last
        /\ UNCHANGED <<users, schedules, nextCampaignId, nextScheduleId,
                       locations, nextLocationId, sessions>>

\* one pass of the loop over schedule_data: the item is parsed and, if it passes,
\* added to the session; nothing is committed
AddScheduleItem ==
    /\ tx.phase = "flushed"
    /\ tx.i <= Len(tx.items)
    /\ tx' = [tx EXCEPT !.i = tx.i + 1]
    /\ UNCHANGED <<users, campaigns, schedules, nextCampaignId, nextScheduleId, last,
                   locations, nextLocationId, sessions>>

\* db.session.commit() after the loop, log_activity and the response; a commit that
\* raises is rolled back by the except clause
CommitCampaign(fault) ==
    /\ tx.phase = "flushed"
    /\ tx.i > Len(tx.items)
    /\ \E reply \in {with_faults(create_campaign(tx.user, tx.body, tx.items), 201,
                                 FailedCreateCampaign, fault)} :
        /\ last' = Request("create_campaign", tx.user,
                           [body |-> tx.body, schedules |-> tx.items, fault |-> fault],
                           reply)
        /\ IF reply.status = 201
             THEN /\ campaigns' = campaigns \cup {reply.out.campaign}
                  /\ schedules' = schedules \cup reply.out.schedules
                  /\ nextCampaignId' = nextCampaignId + 1
                  /\ nextScheduleId' = nextScheduleId + Cardinality(reply.out.schedules)
             ELSE UNCHANGED <<campaigns, schedules, nextCampaignId, nextScheduleId>>
        /\ tx' = NoTx
        /\ UNCHANGED <<users, locations, nextLocationId, sessions>>

\* the process dies between the flush and the commit: the storage discards the
\* transaction, no response is sent
Crash ==
    /\ tx.phase = "flushed"
    /\ tx' = NoTx
    /\ last' = Request("crash", tx.user, [schedules |-> tx.items, i |-> tx.i],
                       Reply(0, "", "", NoOut))
    /\ UNCHANGED <<users, campaigns, schedules, nextCampaignId, nextScheduleId,
                   locations, nextLocationId, sessions>>

(***************************************************************************)
(* create_schedule next to another request.  The handler issues no lock:   *)
(* Campaign.query.get is one statement, db.session.add and commit another, *)
(* and a request of another worker can commit between the two.  tx holds   *)
(* the request of create_schedule that has passed its checks and not yet   *)
(* reached db.session.add, with the campaign it read and the row it built. *)
(***************************************************************************)
\* whether the storage enforces campaign_schedules.campaign_id -> campaigns.id:
\* SQLite, the default DATABASE_URL, does not unless PRAGMA foreign_keys is set,
\* and the engine options set none; MySQL with InnoDB does
ForeignKeys == BOOLEAN

\* create_schedule up to the row it builds: a refused request is answered at once
BeginSchedule(u, body) ==
    /\ tx.phase = "idle"
    /\ \E reply \in {create_schedule(u, body)} :
        IF reply.status # 201
          THEN /\ last' = Request("create_schedule", u, body, reply)
               /\ UNCHANGED tx
          ELSE /\ tx' = [phase |-> "checked", user |-> u, body |-> body,
                         items |-> <<>>,
                         campaign |-> CHOOSE c \in campaigns :
                                          c.id = reply.out.campaign_id,
                         i |-> 0, schedule |-> reply.out]
               /\ UNCHANGED last
    /\ UNCHANGED <<users, campaigns, schedules, nextCampaignId, nextScheduleId,
                   locations, nextLocationId, sessions>>

\* db.session.add(schedule); db.session.commit(); log_activity(... campaign.name ...)
\* against the campaigns committed by now.  With the campaign gone, an enforced
\* foreign key makes the commit raise IntegrityError and nothing is stored; without
\* it the row is committed, and reading the expired campaign.name raises
\* ObjectDeletedError into the except clause
insert_schedule(schedule, foreign_keys) ==
    IF schedule.campaign_id \in CampaignIds
      THEN Reply(201, "", "schedule_created", schedule)
    ELSE IF foreign_keys THEN Reply(500, FailedCreateSchedule, "", NoOut)
    ELSE Reply(500, FailedCreateSchedule, "", schedule)

InsertSchedule(foreign_keys) ==
    /\ tx.phase = "checked"
    /\ \E reply \in {insert_schedule([tx.schedule EXCEPT !.id = nextScheduleId],
                                     foreign_keys)} :
        /\ last' = Request("create_schedule", tx.user, tx.body, reply)
        /\ IF reply.out # NoOut
             THEN /\ schedules' = schedules \cup {reply.out}
                  /\ nextScheduleId' = nextScheduleId + 1
             ELSE UNCHANGED <<schedules, nextScheduleId>>
    /\ tx' = NoTx
    /\ UNCHANGED <<users, campaigns, nextCampaignId, locations, nextLocationId,
                   sessions>>

(***************************************************************************)
(* Sessions, user roles and the location handlers.  A session is a cookie  *)
(* the client holds: it carries the user_id and the role the user had at   *)
(* login.  sessions is the set of cookies issued so far.                   *)
(***************************************************************************)
\* a request without a session
NoCookie == [user_id |-> Anonymous, role |-> ""]

DashboardRedirect == "You need admin privileges to access this page."

LocationNameRequired == "Name is required"

FailedCreateLocation == "Failed to create location"

FailedUpdateLocation == "Failed to update location"

FailedDeleteLocation == "Failed to delete location"

ValidRoleRequired == "Valid role is required"

FailedUpdateRole == "Failed to update user role"

StatusActiveLocation == <<"active">>

Location(id, name, status, created_by) ==
    [id |-> id, name |-> name, status |-> status, created_by |-> created_by]

InvalidLogin == "Invalid username or password."

LoginFieldsRequired == "Username and password are required."

\* the row User.query.filter_by(username=username).first() finds, or Anonymous
user_by_username(username) ==
    IF \E u \in DOMAIN users : users[u].username = username
    THEN CHOOSE u \in DOMAIN users : users[u].username = username
    ELSE Anonymous

\* bcrypt.checkpw against the stored hash
check_password(u, password) == users[u].password = password

\* a login that does not look at is_active
login_inactive_too(username, password) ==
    LET u == user_by_username(username)
    IN  IF username = "" \/ password = <<>> THEN Reply(200, LoginFieldsRequired, "", NoOut)
        ELSE IF u # Anonymous /\ check_password(u, password)
            THEN Reply(302, "", "user_login", [user_id |-> u, role |-> users[u].role])
        ELSE Reply(200, InvalidLogin, "", NoOut)

\* POST /login: out is the session written, user_id and role
login(username, password) ==
    LET u == user_by_username(username)
    IN  IF username = "" \/ password = <<>> THEN Reply(200, LoginFieldsRequired, "", NoOut)
        ELSE IF u # Anonymous /\ check_password(u, password) /\ users[u].is_active
            THEN Reply(302, "", "user_login", [user_id |-> u, role |-> users[u].role])
        ELSE Reply(200, InvalidLogin, "", NoOut)

LoginForm(username, password) ==
    \E reply \in {login(username, password)} :
        /\ last' = Request("login", IF reply.status = 302 THEN reply.out.user_id ELSE Anonymous,
                           [username |-> username, password |-> password], reply)
        /\ IF reply.status = 302
             THEN sessions' = sessions \cup {reply.out}
             ELSE UNCHANGED sessions
        /\ UNCHANGED <<users, campaigns, schedules, nextCampaignId, nextScheduleId,
                       tx, locations, nextLocationId>>

\* login of the user u with its own username and password
Login(u) == LoginForm(users[u].username, users[u].password)

\* an admin test that trusts the role in the session
cookie_is_admin(cookie) == cookie.role = "admin"

\* admin_required: user = User.query.get(session['user_id']); user.is_admin()
stored_is_admin(cookie) == is_admin(users[cookie.user_id])

\* login_required and admin_required in front of a handler: "" lets the request
\* through, otherwise the message of the redirect
admin_required(cookie) ==
    IF cookie.user_id = Anonymous THEN LoginRedirect
    ELSE IF ~stored_is_admin(cookie) THEN DashboardRedirect
    ELSE ""

\* the response of a handler behind admin_required
behind_admin_required(cookie, reply) ==
    IF admin_required(cookie) # "" THEN Reply(302, admin_required(cookie), "", NoOut)
    ELSE reply

\* an update that stores whatever string the body names as role
update_user_role_unchecked(cookie, user_id, body) ==
    LET data == body.obj
    IN  behind_admin_required(cookie,
            IF user_id \notin DOMAIN users THEN Reply(500, FailedUpdateRole, "", NoOut)
            ELSE IF body.null THEN Reply(500, FailedUpdateRole, "", NoOut)
            ELSE IF Has(data, "role") /\ data["role"].t = "str"
                THEN Reply(200, "", "user_role_updated", data["role"].s[1])
            ELSE Reply(400, ValidRoleRequired, "", NoOut))

update_user_role(cookie, user_id, body) ==
    LET data == body.obj
    IN  behind_admin_required(cookie,
            IF user_id \notin DOMAIN users THEN Reply(500, FailedUpdateRole, "", NoOut)
            \* 'role' in None
            ELSE IF body.null THEN Reply(500, FailedUpdateRole, "", NoOut)
            ELSE IF Has(data, "role") /\ data["role"].t = "str"
                    /\ data["role"].s \in {<<"admin">>, <<"client">>, <<"viewer">>}
                THEN Reply(200, "", "user_role_updated", data["role"].s[1])
            ELSE Reply(400, ValidRoleRequired, "", NoOut))

UpdateUserRole(cookie, user_id, body) ==
    \E reply \in {update_user_role(cookie, user_id, body)} :
        /\ last' = Request("update_user_role", cookie.user_id,
                           [cookie |-> cookie, user_id |-> user_id, body |-> body], reply)
        /\ IF reply.status = 200
             THEN users' = [users EXCEPT ![user_id].role = reply.out]
             ELSE UNCHANGED users
        /\ UNCHANGED <<campaigns, schedules, nextCampaignId, nextScheduleId,
                       tx, locations, nextLocationId, sessions>>

create_location(cookie, body) ==
    LET data == body.obj
        location == Location(nextLocationId, data["name"].s,
                             Get(data, "status", JStr(StatusActiveLocation)).s,
                             cookie.user_id)
    IN  behind_admin_required(cookie,
            IF body.null \/ DOMAIN data = {} \/ ~Has(data, "name")
                THEN Reply(400, LocationNameRequired, "", NoOut)
            \* commit: name is NOT NULL (a name is a string or null)
            ELSE IF data["name"].t = "null"
                THEN Reply(500, FailedCreateLocation, "", NoOut)
            ELSE Reply(201, "", "location_created", location))

CreateLocation(cookie, body) ==
    \E reply \in {create_location(cookie, body)} :
        /\ last' = Request("create_location", cookie.user_id,
                           [cookie |-> cookie, location_id |-> 0, body |-> body], reply)
        /\ IF reply.status = 201
             THEN /\ locations' = locations \cup {reply.out}
                  /\ nextLocationId' = nextLocationId + 1
             ELSE UNCHANGED <<locations, nextLocationId>>
        /\ UNCHANGED <<users, campaigns, schedules, nextCampaignId, nextScheduleId,
                       tx, sessions>>

update_location(cookie, location_id, body) ==
    LET data == body.obj
        found == {l \in locations : l.id = location_id}
        location == CHOOSE l \in found : TRUE
        name == IF Has(data, "name") THEN data["name"] ELSE JStr(location.name)
        status == Get(data, "status", JStr(location.status))
    IN  behind_admin_required(cookie,
            \* get_or_404 aborts inside the try block
            IF found = {} THEN Reply(500, FailedUpdateLocation, "", NoOut)
            \* 'name' in None
            ELSE IF body.null THEN Reply(500, FailedUpdateLocation, "", NoOut)
            \* commit: name and status are NOT NULL (each is a string or null)
            ELSE IF name.t = "null" \/ status.t = "null"
                THEN Reply(500, FailedUpdateLocation, "", NoOut)
            ELSE Reply(200, "", "location_updated",
                       Location(location.id, name.s, status.s, location.created_by)))

UpdateLocation(cookie, location_id, body) ==
    \E reply \in {update_location(cookie, location_id, body)} :
        /\ last' = Request("update_location", cookie.user_id,
                           [cookie |-> cookie, location_id |-> location_id,
                            body |-> body], reply)
        /\ IF reply.status = 200
             THEN locations' = {l \in locations : l.id # location_id} \cup {reply.out}
             ELSE UNCHANGED locations
        /\ UNCHANGED <<users, campaigns, schedules, nextCampaignId, nextScheduleId,
                       tx, nextLocationId, sessions>>

delete_location(cookie, location_id) ==
    LET found == {l \in locations : l.id = location_id}
    IN  behind_admin_required(cookie,
            IF found = {} THEN Reply(500, FailedDeleteLocation, "", NoOut)
            ELSE Reply(200, "", "location_deleted", CHOOSE l \in found : TRUE))

DeleteLocation(cookie, location_id) ==
    \E reply \in {delete_location(cookie, location_id)} :
        /\ last' = Request("delete_location", cookie.user_id,
                           [cookie |-> cookie, location_id |-> location_id,
                            body |-> NoBody], reply)
        /\ IF reply.status = 200
             THEN locations' = locations \ {reply.out}
             ELSE UNCHANGED locations
        /\ UNCHANGED <<users, campaigns, schedules, nextCampaignId, nextScheduleId,
                       tx, nextLocationId, sessions>>

(***************************************************************************)
(* The handlers that write the table users: demo_login, register,          *)
(* update_profile, toggle_user_status, delete_account.                     *)
(***************************************************************************)
allowed_demo_users == {"admin", "client1", "viewer1"}

InvalidDemoAccount == "Invalid demo account."

DemoAccountNotFound == "Demo account not found. Please run the demo setup script."

\* User.query.filter_by(username=username, is_active=True).first()
demo_login(username) ==
    LET u == user_by_username(username)
    IN  IF username \notin allowed_demo_users THEN Reply(302, InvalidDemoAccount, "", NoOut)
        ELSE IF u # Anonymous /\ users[u].is_active
            THEN Reply(302, "", "demo_login", [user_id |-> u, role |-> users[u].role])
        ELSE Reply(302, DemoAccountNotFound, "", NoOut)

DemoLogin(username) ==
    \E reply \in {demo_login(username)} :
        /\ last' = Request("demo_login",
                           IF reply.error = "" THEN reply.out.user_id ELSE Anonymous,
                           [username |-> username], reply)
        /\ IF reply.error = ""
             THEN sessions' = sessions \cup {reply.out}
             ELSE UNCHANGED sessions
        /\ UNCHANGED <<users, campaigns, schedules, nextCampaignId, nextScheduleId,
                       tx, locations, nextLocationId>>

AllFieldsRequired == "All fields are required."

PasswordsDoNotMatch == "Passwords do not match."

PasswordTooShort == "Password must be at least 6 characters long."

UsernameExists == "Username already exists."

EmailRegistered == "Email already registered."

\* POST /register: out is the row added
register(username, email, password, confirm_password) ==
    IF username = "" \/ email = "" \/ password = <<>> \/ confirm_password = <<>>
        THEN Reply(200, AllFieldsRequired, "", NoOut)
    ELSE IF password # confirm_password THEN Reply(200, PasswordsDoNotMatch, "", NoOut)
    ELSE IF Len(password) < 6 THEN Reply(200, PasswordTooShort, "", NoOut)
    ELSE IF \E u \in DOMAIN users : users[u].username = username
        THEN Reply(200, UsernameExists, "", NoOut)
    ELSE IF \E u \in DOMAIN users : users[u].email = email
        THEN Reply(200, EmailRegistered, "", NoOut)
    ELSE Reply(302, "", "registered", User(username, email, password, "viewer"))

\* the id the autoincrement key gives the next row of users (no row is deleted)
nextUserId == Cardinality(DOMAIN users) + 1

Register(username, email, password, confirm_password) ==
    \E reply \in {register(username, email, password, confirm_password)} :
        /\ last' = Request("register", Anonymous,
                           [username |-> username, email |-> email, password |-> password,
                            confirm_password |-> confirm_password], reply)
        /\ IF reply.status = 302
             THEN users' = [u \in DOMAIN users \cup {nextUserId} |->
                              IF u = nextUserId THEN reply.out ELSE users[u]]
             ELSE UNCHANGED users
        /\ UNCHANGED <<campaigns, schedules, nextCampaignId, nextScheduleId, elsewhere>>

\* login_required in front of a handler
behind_login_required(cookie, reply) ==
    IF cookie.user_id = Anonymous THEN Reply(302, LoginRedirect, "", NoOut) ELSE reply

UsernameRequired == "Username is required"

FailedUpdateProfile == "Failed to update profile"

\* PUT /api/profile: out is the caller's row as updated
update_profile(cookie, body) ==
    LET data == body.obj
        user == users[cookie.user_id]
        username == Get(data, "username", JNull)
        email == Get(data, "email", JStr(<<user.email>>))
    IN  behind_login_required(cookie,
            \* None.get
            IF body.null THEN Reply(500, FailedUpdateProfile, "", NoOut)
            ELSE IF Falsy(username) THEN Reply(400, UsernameRequired, "", NoOut)
            ELSE IF \E u \in DOMAIN users \ {cookie.user_id} : users[u].username = username.s[1]
                THEN Reply(400, UsernameExists, "", NoOut)
            \* commit: email is NOT NULL and unique
            ELSE IF email.t = "null"
                    \/ \E u \in DOMAIN users \ {cookie.user_id} : users[u].email = email.s[1]
                THEN Reply(500, FailedUpdateProfile, "", NoOut)
            ELSE Reply(200, "", "profile_updated",
                       [user EXCEPT !.username = username.s[1], !.email = email.s[1]]))

UpdateProfile(cookie, body) ==
    \E reply \in {update_profile(cookie, body)} :
        /\ last' = Request("update_profile", cookie.user_id,
                           [cookie |-> cookie, body |-> body], reply)
        /\ IF reply.status = 200
             THEN users' = [users EXCEPT ![cookie.user_id] = reply.out]
             ELSE UNCHANGED users
        /\ UNCHANGED <<campaigns, schedules, nextCampaignId, nextScheduleId, elsewhere>>

CannotDeactivateSelf == "Cannot deactivate your own account"

FailedToggleStatus == "Failed to update user status"

\* POST /api/users/<id>/toggle-status: out is the new is_active
toggle_user_status(cookie, user_id) ==
    behind_admin_required(cookie,
        IF user_id \notin DOMAIN users THEN Reply(500, FailedToggleStatus, "", NoOut)
        ELSE IF user_id = cookie.user_id THEN Reply(400, CannotDeactivateSelf, "", NoOut)
        ELSE Reply(200, "", "user_status_updated", ~users[user_id].is_active))

ToggleUserStatus(cookie, user_id) ==
    \E reply \in {toggle_user_status(cookie, user_id)} :
        /\ last' = Request("toggle_user_status", cookie.user_id,
                           [cookie |-> cookie, user_id |-> user_id], reply)
        /\ IF reply.status = 200
             THEN users' = [users EXCEPT ![user_id].is_active = reply.out]
             ELSE UNCHANGED users
        /\ UNCHANGED <<campaigns, schedules, nextCampaignId, nextScheduleId, elsewhere>>

PasswordVerificationFailed == "Password verification failed"

FailedDeleteAccount == "Failed to delete account"

\* DELETE /api/account/delete: the account is deactivated, not removed
delete_account(cookie, body) ==
    LET password == Get(body.obj, "password", JStr(<<>>))
    IN  behind_login_required(cookie,
            \* None.get, and encode of a value that is no string
            IF body.null \/ password.t # "str"
                THEN Reply(500, FailedDeleteAccount, "", NoOut)
            ELSE IF ~check_password(cookie.user_id, password.s)
                THEN Reply(400, PasswordVerificationFailed, "", NoOut)
            ELSE Reply(200, "", "account_deleted", NoOut))

DeleteAccount(cookie, body) ==
    \E reply \in {delete_account(cookie, body)} :
        /\ last' = Request("delete_account", cookie.user_id,
                           [cookie |-> cookie, body |-> body], reply)
        /\ IF reply.status = 200
             THEN users' = [users EXCEPT ![cookie.user_id].is_active = FALSE]
             ELSE UNCHANGED users
        /\ UNCHANGED <<campaigns, schedules, nextCampaignId, nextScheduleId, elsewhere>>

(***************************************************************************)
(* Request inputs.                                                         *)
(***************************************************************************)
T0900 == <<"0", "9", ":", "0", "0">>

T1700 == <<"1", "7", ":", "0", "0">>

T2359 == <<"2", "3", ":", "5", "9">>

T900 == <<"9", ":", "0", "0">>

T95 == <<"9", ":", "5">>

T2400 == <<"2", "4", ":", "0", "0">>

T0960 == <<"0", "9", ":", "6", "0">>

TNoColon == <<"0", "9", "0", "0">>

TTrailing == <<"0", "9", ":", "0", "0", " ">>

TimeStrings == {T0900, T2359, T900, T95, T2400, T0960, TNoColon, TTrailing, <<>>}

EndStrings == {T1700, T95, T2400}

DayValues == {JInt(0 - 1), JInt(0), JInt(6), JInt(7), JStr(<<"6">>),
              JStr(<<"a", "b", "c">>), JFloat(65), JNull}

ActiveValues == {JBool(FALSE), JStr(<<"y", "e", "s">>)}

ScheduleFields(campaign_id, day_of_week, start_time, end_time) ==
    [k \in ScheduleKeys |->
        CASE k = "campaign_id" -> campaign_id
          [] k = "day_of_week" -> day_of_week
          [] k = "start_time" -> start_time
          [] k = "end_time" -> end_time]

WithActive(f, is_active) ==
    [k \in DOMAIN f \cup {"is_active"} |-> IF k = "is_active" THEN is_active ELSE f[k]]

\* the ids a request can name: those handed out so far and one more
PathIds == 1..(MaxCampaigns + 1)

GoodFields(c) == ScheduleFields(JInt(c), JInt(0), JStr(T0900), JStr(T1700))

\* bodies of POST /api/schedule that vary the day, the times, is_active and the keys
WideFields ==
    {ScheduleFields(JInt(1), d, JStr(T0900), JStr(T1700)) : d \in DayValues}
    \cup {ScheduleFields(JInt(1), JInt(0), JStr(s), JStr(e))
            : s \in TimeStrings, e \in EndStrings}
    \cup {ScheduleFields(JInt(1), JInt(0), JInt(900), JStr(T1700))}
    \cup {WithActive(GoodFields(1), a) : a \in ActiveValues}
    \cup {ScheduleFields(JInt(2), d, JStr(s), JStr(T1700))
            : d \in {JInt(0), JInt(7), JStr(<<"a", "b", "c">>)}, s \in {T0900, T2400}}

WideScheduleBodies ==
    {NoBody} \cup {Dict(f) : f \in WideFields}
    \cup {Dict(Restrict(GoodFields(1), K)) : K \in SUBSET ScheduleKeys}

\* items of a 'schedules' batch
ItemFields(day_of_week, start_time, end_time) ==
    Restrict(ScheduleFields(JNull, day_of_week, start_time, end_time),
             {"day_of_week", "start_time", "end_time"})

GoodItem == ItemFields(JInt(2), JStr(T0900), JStr(T1700))

WideItems ==
    {NotADict, Item(GoodItem)}
    \cup {Item(ItemFields(d, JStr(T0900), JStr(T1700)))
            : d \in {JInt(7), JStr(<<"6">>), JStr(<<"a", "b", "c">>), JFloat(65), JNull}}
    \cup {Item(ItemFields(JInt(2), JStr(s), JStr(T1700))) : s \in {T900, T2400}}
    \cup {Item(ItemFields(JInt(2), JStr(T0900), JInt(1700)))}
    \cup {Item(Restrict(GoodItem, {"day_of_week", "start_time"}))}
    \cup {Item(WithActive(GoodItem, a)) : a \in ActiveValues}

Batches(items) == UNION {[1..n -> items] : n \in 0..MaxBatch}

CampaignFields(name) == [k \in {"name"} |-> name]

With(f, key, value) == [k \in DOMAIN f \cup {key} |-> IF k = key THEN value ELSE f[k]]

NameA == <<"A">>

(***************************************************************************)
(* Specification of the stores' life cycle: every handler, called by the   *)
(* admin, by the client and without a session, a few bodies each.          *)
(***************************************************************************)
SpecCallers == {1, 2}

ScheduleRequests ==
    (SpecCallers \X {Dict(GoodFields(c)) : c \in PathIds})
    \cup {<<1, Dict(ScheduleFields(JInt(1), d, JStr(T0900), JStr(T1700)))>>
            : d \in {JInt(7), JFloat(0 - 5)}}
    \cup {<<1, NoBody>>, <<Anonymous, Dict(GoodFields(1))>>}

Items == {Item(GoodItem), Item(ItemFields(JInt(9), JStr(T0900), JStr(T1700)))}

CampaignRequests ==
    (SpecCallers \X {Dict(CampaignFields(JStr(NameA)))} \X Batches(Items))
    \cup {<<1, Dict(With(CampaignFields(JStr(NameA)), "client_id", JInt(2))), <<>> >>,
          <<1, Dict(EmptyDict), <<Item(GoodItem)>> >>,
          <<Anonymous, Dict(CampaignFields(JStr(NameA))), <<Item(GoodItem)>> >>}

UpdateRequests ==
    (SpecCallers \X PathIds \X {Dict([k \in {"client_id"} |-> JNull])})
    \cup {<<1, 1, Dict([k \in {"client_id"} |-> JInt(2)])>>, <<1, 1, NoBody>>,
          <<Anonymous, 1, Dict([k \in {"client_id"} |-> JNull])>>}

DeleteRequests == (SpecCallers \X PathIds) \cup {<<Anonymous, 1>>}

Next ==
    \/ /\ nextCampaignId <= MaxCampaigns
       /\ \E r \in CampaignRequests :
             /\ nextScheduleId + Len(r[3]) <= MaxSchedules + 1
             /\ CreateCampaign(r[1], r[2], r[3])
    \/ /\ nextScheduleId <= MaxSchedules
       /\ \E r \in ScheduleRequests : CreateSchedule(r[1], r[2])
    \/ \E r \in UpdateRequests : UpdateCampaign(r[1], r[2], r[3])
    \/ \E r \in DeleteRequests : DeleteCampaign(r[1], r[2])

Spec == Init /\ [][Next]_vars

(***************************************************************************)
(* Specification of input validation: the two creation paths on the wide   *)
(* bodies, one campaign at a time, and deletion so that campaigns also     *)
(* cease to exist.                                                         *)
(***************************************************************************)
WideCampaignRequests ==
    ({1} \X {Dict(CampaignFields(JStr(NameA)))} \X Batches(WideItems))
    \cup ({1} \X {NoBody, Dict(EmptyDict), Dict(CampaignFields(JNull))}
              \X {<<>>, <<Item(GoodItem)>>})

WideScheduleRequests ==
    ({1} \X WideScheduleBodies) \cup {<<Anonymous, Dict(GoodFields(1))>>}

NextInput ==
    \/ /\ nextCampaignId <= MaxCampaigns
       /\ campaigns = {}
       /\ \E r \in WideCampaignRequests : CreateCampaign(r[1], r[2], r[3])
    \/ /\ nextScheduleId <= MaxSchedules
       /\ \E r \in WideScheduleRequests : CreateSchedule(r[1], r[2])
    \/ \E campaign_id \in PathIds : DeleteCampaign(1, campaign_id)

SpecInput == Init /\ [][NextInput]_vars

(***************************************************************************)
(* Specification of POST /api/schedule on the wide bodies, with campaigns  *)
(* created without a batch and deleted.                                    *)
(***************************************************************************)
NextSchedule ==
    \/ /\ nextCampaignId <= MaxCampaigns
       /\ CreateCampaign(1, Dict(CampaignFields(JStr(NameA))), <<>>)
    \/ /\ nextScheduleId <= MaxSchedules
       /\ \E r \in WideScheduleRequests : CreateSchedule(r[1], r[2])
    \/ \E campaign_id \in PathIds : DeleteCampaign(1, campaign_id)

SpecSchedule == Init /\ [][NextSchedule]_vars

(***************************************************************************)
(* Specification of GET /api/schedule: campaigns with and without a        *)
(* client, schedules on several days from both creation paths, and the     *)
(* query by every role with and without a date.                            *)
(***************************************************************************)
D0101 == <<"2", "0", "2", "4", "-", "0", "1", "-", "0", "1">>

D0103 == <<"2", "0", "2", "4", "-", "0", "1", "-", "0", "3">>

D0104 == <<"2", "0", "2", "4", "-", "0", "1", "-", "0", "4">>

D0229 == <<"2", "0", "2", "4", "-", "0", "2", "-", "2", "9">>

D0229NoLeap == <<"2", "0", "2", "3", "-", "0", "2", "-", "2", "9">>

DShort == <<"2", "0", "2", "4", "-", "1", "-", "3">>

DSlashes == <<"2", "0", "2", "4", "/", "0", "1", "/", "0", "4">>

DDayFirst == <<"0", "4", "-", "0", "1", "-", "2", "0", "2", "4">>

DTrailing == <<"2", "0", "2", "4", "-", "0", "1", "-", "0", "4", " ">>

\* values of request.args.get('date')
DateArgs ==
    {JNull} \cup {JStr(s) : s \in {<<>>, D0101, D0103, D0104, D0229, D0229NoLeap,
                                   DShort, DSlashes, DDayFirst, DTrailing}}

QueryCampaignRequests ==
    {<<1, Dict(CampaignFields(JStr(NameA))), <<>> >>,
     <<1, Dict(With(CampaignFields(JStr(NameA)), "client_id", JInt(4))), <<Item(GoodItem)>> >>,
     <<2, Dict(CampaignFields(JStr(NameA))), <<Item(GoodItem)>> >>}

QueryScheduleRequests ==
    {<<2, Dict(ScheduleFields(JInt(c), JInt(d), JStr(T0900), JStr(T1700)))>>
        : c \in 1..MaxCampaigns, d \in {0, 3}}
    \cup {<<1, Dict(ScheduleFields(JInt(1), JInt(3), JStr(T0900), JStr(T1700)))>>}

QueryRequests ==
    ({1, 2} \X DateArgs) \cup ({3, 4} \X {JNull, JStr(D0103), JStr(D0104)})
    \cup {<<Anonymous, JNull>>}

NextQuery ==
    \/ /\ nextCampaignId <= MaxCampaigns
       /\ \E r \in QueryCampaignRequests :
             /\ nextScheduleId + Len(r[3]) <= MaxSchedules + 1
             /\ CreateCampaign(r[1], r[2], r[3])
    \/ /\ nextScheduleId <= MaxSchedules
       /\ \E r \in QueryScheduleRequests : CreateSchedule(r[1], r[2])
    \/ \E r \in QueryRequests : GetSchedules(r[1], r[2])
    \/ DeleteCampaign(1, 1)

SpecQuery == Init /\ [][NextQuery]_vars

(***************************************************************************)
(* Specification of the handlers on a storage that can fail: create_campaign *)
(* step by step with a crash at any point, create_schedule and             *)
(* delete_campaign with a failing commit or a failing log write.           *)
(***************************************************************************)
StorageItems == {Item(GoodItem), Item(ItemFields(JInt(9), JStr(T0900), JStr(T1700))),
                 Item(WithActive(GoodItem, JStr(<<"y", "e", "s">>)))}

StorageCampaignRequests ==
    ({1} \X {Dict(CampaignFields(JStr(NameA)))} \X Batches(StorageItems))
    \cup {<<1, Dict(EmptyDict), <<Item(GoodItem)>> >>,
          <<1, Dict(CampaignFields(JNull)), <<Item(GoodItem)>> >>,
          <<Anonymous, Dict(CampaignFields(JStr(NameA))), <<Item(GoodItem)>> >>}

StorageScheduleRequests ==
    {<<1, Dict(GoodFields(c))>> : c \in 1..MaxCampaigns}
    \cup {<<1, Dict(ScheduleFields(JInt(1), JInt(7), JStr(T0900), JStr(T1700)))>>,
          <<1, Dict(WithActive(GoodFields(1), JStr(<<"y", "e", "s">>)))>>}

NextStorage ==
    \/ /\ nextCampaignId <= MaxCampaigns
       /\ tx.phase = "idle"
       /\ \E r \in StorageCampaignRequests :
             /\ nextScheduleId + Len(r[3]) <= MaxSchedules + 1
             /\ BeginCampaign(r[1], r[2], r[3])
    \/ AddScheduleItem
    \/ \E fault \in Faults : CommitCampaign(fault)
    \/ Crash
    \/ /\ nextScheduleId <= MaxSchedules
       /\ tx.phase = "idle"
       /\ \E r \in StorageScheduleRequests, fault \in Faults :
             CreateScheduleOnStorage(r[1], r[2], fault)
    \/ \E campaign_id \in 1..MaxCampaigns, fault \in {"none", "log"} :
          DeleteCampaignOnStorage(1, campaign_id, fault)

SpecStorage == Init /\ [][NextStorage]_vars

(***************************************************************************)
(* Specification of the location handlers: users 1 (admin at first) and 2  *)
(* (client at first) log in, roles are changed, and locations are created, *)
(* renamed and deleted with any cookie issued so far or with none.         *)
(***************************************************************************)
NameB == <<"B">>

LocationUsers == {1, 2}

RoleBodies == {Dict([k \in {"role"} |-> JStr(<<r>>)]) : r \in {"admin", "viewer"}}

LocationBodies == {Dict(CampaignFields(JStr(NameA))), Dict(EmptyDict)}

NextLocation ==
    \/ \E u \in LocationUsers : Login(u)
    \/ \E cookie \in sessions \cup {NoCookie}, user_id \in LocationUsers,
          body \in RoleBodies : UpdateUserRole(cookie, user_id, body)
    \/ /\ nextLocationId <= MaxLocations
       /\ \E cookie \in sessions \cup {NoCookie}, body \in LocationBodies :
             CreateLocation(cookie, body)
    \/ \E cookie \in sessions \cup {NoCookie} :
          UpdateLocation(cookie, 1, Dict(CampaignFields(JStr(NameB))))
    \/ \E cookie \in sessions \cup {NoCookie}, location_id \in 1..MaxLocations :
          DeleteLocation(cookie, location_id)

SpecLocation == Init /\ [][NextLocation]_vars

(***************************************************************************)
(* Specification of the campaign listing: the admin and a client create    *)
(* campaigns with and without a status and an assigned client, the admin   *)
(* and the client change them, and every caller lists the campaigns.       *)
(***************************************************************************)
StatusField(s) == [k \in {"status"} |-> JStr(<<s>>)]

ListingCreateBodies ==
    {Dict(CampaignFields(JStr(NameA))),
     Dict(With(CampaignFields(JStr(NameA)), "status", JStr(StatusActive))),
     Dict(With(CampaignFields(JStr(NameA)), "status", JStr(<<"archived">>))),
     Dict(With(CampaignFields(JStr(NameA)), "client_id", JInt(2))),
     Dict(With(With(CampaignFields(JStr(NameA)), "client_id", JInt(4)),
               "status", JStr(StatusActive)))}

ListingCreateRequests ==
    ({1} \X ListingCreateBodies)
    \cup {<<2, Dict(CampaignFields(JStr(NameA)))>>,
          <<Anonymous, Dict(CampaignFields(JStr(NameA)))>>}

ListingUpdateRequests ==
    {<<1, 1, Dict(StatusField("paused"))>>,
     <<2, 1, Dict(StatusField("done"))>>,
     <<1, 1, Dict(StatusField("active"))>>}

NextCampaigns ==
    \/ /\ nextCampaignId <= MaxCampaigns
       /\ \E r \in ListingCreateRequests : CreateCampaign(r[1], r[2], <<>>)
    \/ \E r \in ListingUpdateRequests : UpdateCampaign(r[1], r[2], r[3])
    \/ \E u \in UserIds \cup {Anonymous} : GetCampaigns(u)

SpecCampaigns == Init /\ [][NextCampaigns]_vars

(***************************************************************************)
(* Specification of a schedule's life: schedules are stored by a batch of  *)
(* create_campaign, whose items may name a campaign of their own, and by   *)
(* create_schedule; campaigns are deleted; single schedules are asked to   *)
(* be deleted.                                                             *)
(***************************************************************************)
LifecycleItems ==
    {Item(GoodItem)} \cup {Item(With(GoodItem, "campaign_id", JInt(c))) : c \in {1, 9}}

LifecycleCampaignRequests ==
    ({1} \X {Dict(CampaignFields(JStr(NameA)))} \X Batches(LifecycleItems))
    \cup {<<2, Dict(CampaignFields(JStr(NameA))), <<Item(GoodItem)>> >>}

NextLifecycle ==
    \/ /\ nextCampaignId <= MaxCampaigns
       /\ \E r \in LifecycleCampaignRequests :
             /\ nextScheduleId + Len(r[3]) <= MaxSchedules + 1
             /\ CreateCampaign(r[1], r[2], r[3])
    \/ /\ nextScheduleId <= MaxSchedules
       /\ \E c \in PathIds : CreateSchedule(1, Dict(GoodFields(c)))
    \/ \E u \in {1, 2}, c \in 1..MaxCampaigns : DeleteCampaign(u, c)
    \/ \E u \in {1, Anonymous}, s \in 1..MaxSchedules : DeleteSchedule(u, s)

SpecLifecycle == Init /\ [][NextLifecycle]_vars

(***************************************************************************)
(* Specification of the listing's join: campaigns are created with dates   *)
(* and a client, with active and inactive schedules, campaign 1 is renamed,*)
(* activated and re-dated, and the schedules are listed.                   *)
(***************************************************************************)
D0201 == <<"2", "0", "2", "4", "-", "0", "2", "-", "0", "1">>

DateField(key, value) == [k \in {key} |-> value]

JoinCampaignRequests ==
    {<<1, Dict(With(With(With(CampaignFields(JStr(NameA)), "client_id", JInt(2)),
                         "start_date", JStr(D0101)), "end_date", JStr(D0101))),
         <<Item(GoodItem)>> >>,
     <<1, Dict(CampaignFields(JStr(NameA))),
         <<Item(WithActive(GoodItem, JBool(FALSE)))>> >>,
     <<2, Dict(With(CampaignFields(JStr(NameA)), "start_date", JStr(DShort))),
         <<Item(GoodItem)>> >>}

JoinUpdateRequests ==
    {<<1, 1, Dict(CampaignFields(JStr(NameB)))>>,
     <<1, 1, Dict(StatusField("active"))>>,
     <<1, 1, Dict(DateField("start_date", JStr(D0201)))>>,
     <<1, 1, Dict(DateField("end_date", JNull))>>,
     <<1, 1, Dict(DateField("end_date", JStr(DSlashes)))>>}

JoinQueries == {1, 2, 3} \X {JNull, JStr(D0103), JStr(D0104)}

NextJoin ==
    \/ /\ nextCampaignId <= MaxCampaigns
       /\ \E r \in JoinCampaignRequests :
             /\ nextScheduleId + Len(r[3]) <= MaxSchedules + 1
             /\ CreateCampaign(r[1], r[2], r[3])
    \/ \E r \in JoinUpdateRequests : UpdateCampaign(r[1], r[2], r[3])
    \/ \E r \in JoinQueries : GetSchedules(r[1], r[2])

SpecJoin == Init /\ [][NextJoin]_vars

(***************************************************************************)
(* Specification of the table users: users register and log in, the admin  *)
(* changes roles and toggles accounts, users rename and delete themselves. *)
(***************************************************************************)
PwNew == <<"s", "e", "c", "r", "e", "t">>

PwShort == <<"a", "b", "c">>

RegisterRequests ==
    {<<"newbie", "newbie@x", PwNew, PwNew>>, <<"guest", "guest@x", PwNew, PwNew>>,
     <<"admin", "other@x", PwNew, PwNew>>, <<"other", "admin@x", PwNew, PwNew>>,
     <<"other", "other@x", PwShort, PwShort>>, <<"other", "other@x", PwNew, PwShort>>,
     <<"", "other@x", PwNew, PwNew>>}

LoginRequests ==
    {<<"admin", PwAdmin>>, <<"client1", PwClient>>, <<"client1", PwViewer>>,
     <<"newbie", PwNew>>, <<"ghost", PwAdmin>>, <<"", <<>> >>}

DemoLoginRequests == {"client1", "root"}

UserRoleBodies ==
    {Dict([k \in {"role"} |-> r]) : r \in {JStr(<<"client">>), JStr(<<"owner">>), JInt(1)}}
    \cup {Dict(EmptyDict)}

ProfileBodies ==
    {Dict([k \in {"username"} |-> JStr(<<"client9">>)]),
     Dict([k \in {"username"} |-> JStr(<<"admin">>)]), Dict(EmptyDict)}

AccountBodies ==
    {Dict([k \in {"password"} |-> JStr(PwClient)]),
     Dict([k \in {"password"} |-> JStr(PwShort)]), NoBody}

\* the first id register hands out
NewUserId == Cardinality(UserIds) + 1

NextUsers ==
    \/ /\ Cardinality(DOMAIN users) < Cardinality(UserIds) + MaxRegistrations
       /\ \E r \in RegisterRequests : Register(r[1], r[2], r[3], r[4])
    \/ \E r \in LoginRequests : LoginForm(r[1], r[2])
    \/ \E username \in DemoLoginRequests : DemoLogin(username)
    \/ \E cookie \in sessions \cup {NoCookie}, body \in UserRoleBodies :
          UpdateUserRole(cookie, NewUserId, body)
    \/ \E cookie \in {c \in sessions : c.user_id = 2} \cup {NoCookie},
          body \in ProfileBodies : UpdateProfile(cookie, body)
    \/ \E cookie \in sessions \cup {NoCookie}, user_id \in {1, 2, NewUserId} :
          ToggleUserStatus(cookie, user_id)
    \/ \E cookie \in {c \in sessions : c.user_id = 2} \cup {NoCookie},
          body \in AccountBodies : DeleteAccount(cookie, body)

SpecUsers == Init /\ [][NextUsers]_vars

(***************************************************************************)
(* Specification of create_schedule next to delete_campaign: campaigns are *)
(* created and deleted as a whole while one request of create_schedule is  *)
(* between its checks and its insert.                                      *)
(***************************************************************************)
RaceScheduleRequests ==
    ({1, 3} \X {Dict(GoodFields(c)) : c \in PathIds})
    \cup {<<3, Dict(With(GoodFields(1), "day_of_week", JInt(9)))>>}

NextRace ==
    \/ /\ nextCampaignId <= MaxCampaigns
       /\ CreateCampaign(1, Dict(CampaignFields(JStr(NameA))), <<>>)
    \/ /\ nextScheduleId <= MaxSchedules
       /\ \E r \in RaceScheduleRequests : BeginSchedule(r[1], r[2])
    \/ \E foreign_keys \in ForeignKeys : InsertSchedule(foreign_keys)
    \/ \E u \in {1, 3}, campaign_id \in 1..MaxCampaigns : DeleteCampaign(u, campaign_id)

SpecRace == Init /\ [][NextRace]_vars

(***************************************************************************)
(* Properties.                                                             *)
(***************************************************************************)
\* HH:MM with two-digit HH in 00..23 and two-digit MM in 00..59
StrictHHMM(x) ==
    /\ x.t = "str"
    /\ Len(x.s) = 5
    /\ x.s[1] \in Digits /\ x.s[2] \in Digits /\ x.s[3] = ":"
    /\ x.s[4] \in Digits /\ x.s[5] \in Digits
    /\ DecimalValue(SubSeq(x.s, 1, 2)) <= 23
    /\ DecimalValue(SubSeq(x.s, 4, 5)) <= 59

\* the body of create_schedule ran on the last request
ScheduleCall == last.op = "create_schedule" /\ last.user # Anonymous

\* ... on a body that holds the four required keys
ScheduleCallWithKeys ==
    ScheduleCall /\ ~last.req.null /\ ScheduleKeys \subseteq DOMAIN last.req.obj

\* ... and names a campaign that exists
ScheduleCallOnCampaign ==
    ScheduleCallWithKeys /\ \E c \in campaigns : JInt(c.id) = last.req.obj["campaign_id"]

\* is_active is absent or a JSON boolean
ActiveIsBoolean(d) == "is_active" \in DOMAIN d => d["is_active"].t = "bool"

\* the body of create_campaign ran on the last request, with a name that is a string
CampaignCall ==
    /\ last.op = "create_campaign" /\ last.user # Anonymous
    /\ ~last.req.body.null /\ "name" \in DOMAIN last.req.body.obj
    /\ last.req.body.obj["name"].t = "str"

\* C1: in every reachable state every stored schedule has day_of_week in 0..6
C1_DayOfWeekInRange == \A s \in schedules : s.day_of_week \in 0..6

\* a day outside the range was just rejected while schedules are stored
C1_Witness ==
    /\ ScheduleCall /\ last.error = InvalidDayOfWeek
    /\ \E s \in schedules : s.day_of_week = 2

\* the integer day, well-formed times, existing campaign case of create_schedule
C2_Case ==
    /\ ScheduleCallOnCampaign
    /\ last.req.obj["day_of_week"].t = "int"
    /\ StrictHHMM(last.req.obj["start_time"])
    /\ StrictHHMM(last.req.obj["end_time"])

\* C2 as stated: with an existing campaign, well-formed times and an integer day d,
\* create_schedule stores a schedule iff 0 <= d <= 6 and otherwise rejects with
\* InvalidDayOfWeek and stores nothing
C2_Original ==
    [][C2_Case' =>
         IF last'.req.obj["day_of_week"].n \in 0..6
         THEN /\ last'.status = 201
              /\ schedules' = schedules \cup {last'.out}
         ELSE /\ last'.status = 400
              /\ last'.error = InvalidDayOfWeek
              /\ schedules' = schedules]_vars

\* C2 amended: the same, for a request whose is_active is absent or a boolean; the
\* stored schedule is new, carries day d and is attached to the named campaign
C2_DayOfWeekIff ==
    [][(C2_Case /\ ActiveIsBoolean(last.req.obj))' =>
         IF last'.req.obj["day_of_week"].n \in 0..6
         THEN /\ last'.status = 201
              /\ last'.out \notin schedules
              /\ schedules' = schedules \cup {last'.out}
              /\ last'.out.day_of_week = last'.req.obj["day_of_week"].n
              /\ last'.out.campaign_id = last'.req.obj["campaign_id"].n
         ELSE /\ last'.status = 400
              /\ last'.error = InvalidDayOfWeek
              /\ schedules' = schedules]_vars

\* day -1 was just rejected after day 6 had been stored
C2_Witness ==
    /\ C2_Case /\ ActiveIsBoolean(last.req.obj)
    /\ last.req.obj["day_of_week"].n = 0 - 1
    /\ last.status = 400 /\ last.error = InvalidDayOfWeek
    /\ \E s \in schedules : s.day_of_week = 6

\* a batch item that is well formed in everything but, possibly, the form of its times
ItemWithTimes(schedule_item) ==
    /\ schedule_item.isdict
    /\ {"day_of_week", "start_time", "end_time"} \subseteq DOMAIN schedule_item.obj
    /\ schedule_item.obj["start_time"].t = "str"
    /\ schedule_item.obj["end_time"].t = "str"
    /\ schedule_item.obj["day_of_week"].t = "int"
    /\ schedule_item.obj["day_of_week"].n \in 0..6
    /\ ActiveIsBoolean(schedule_item.obj)

\* C3: on both creation paths a time string is accepted iff it has the strict form
\* HH:MM (two digits each, 00..23 and 00..59); any other string is rejected with
\* InvalidTimeFormat and produces no schedule
C3_StrictTimes ==
    /\ (/\ ScheduleCallOnCampaign
        /\ last.req.obj["start_time"].t = "str"
        /\ last.req.obj["end_time"].t = "str")
       => IF StrictHHMM(last.req.obj["start_time"]) /\ StrictHHMM(last.req.obj["end_time"])
          THEN last.error # InvalidTimeFormat
          ELSE last.status = 400 /\ last.error = InvalidTimeFormat
    /\ (CampaignCall /\ last.status = 201)
       => \A i \in DOMAIN last.req.schedules :
             ItemWithTimes(last.req.schedules[i])
             => (last.out.outcomes[i] = "added"
                   <=> /\ StrictHHMM(last.req.schedules[i].obj["start_time"])
                       /\ StrictHHMM(last.req.schedules[i].obj["end_time"]))

\* malformed, as the batch rule counts it: a required key missing, a day_of_week that
\* is no integer in 0..6, or a time that is not in HH:MM form
Malformed(schedule_item) ==
    \/ ~schedule_item.isdict
    \/ ~({"day_of_week", "start_time", "end_time"} \subseteq DOMAIN schedule_item.obj)
    \/ ~PyInt(schedule_item.obj["day_of_week"]).ok
    \/ PyInt(schedule_item.obj["day_of_week"]).v \notin 0..6
    \/ ~StrictHHMM(schedule_item.obj["start_time"])
    \/ ~StrictHHMM(schedule_item.obj["end_time"])

\* C4: of a batch of N items with M malformed, exactly the N - M others are stored for
\* the new campaign and exactly the M malformed ones are skipped
C4_BatchCounts ==
    CampaignCall =>
        LET items == last.req.schedules
            bad == {i \in DOMAIN items : Malformed(items[i])}
            stored == {s \in schedules : s.campaign_id = last.out.campaign.id}
        IN  /\ Cardinality(stored) = Len(items) - Cardinality(bad)
            /\ \A i \in DOMAIN items : last.out.outcomes[i] = "added" <=> i \notin bad

\* C5: create_campaign with a valid name succeeds and persists the campaign whatever
\* its schedule items contain
C5_BatchNeverFails ==
    CampaignCall => last.status = 201 /\ last.out.campaign \in campaigns

\* C6: create_schedule with the four keys, an existing campaign and well-formed times
\* rejects a day_of_week that does not parse as an integer with the client error
\* InvalidDayOfWeek, never with a server failure
C6_UnparsableDayIsClientError ==
    (/\ ScheduleCallOnCampaign
     /\ StrictHHMM(last.req.obj["start_time"])
     /\ StrictHHMM(last.req.obj["end_time"])
     /\ ~PyInt(last.req.obj["day_of_week"]).ok)
    => last.status = 400 /\ last.error = InvalidDayOfWeek

\* the body is absent or lacks one of the four required keys
LacksField == last.req.null \/ \E k \in ScheduleKeys : k \notin DOMAIN last.req.obj

\* C7: create_schedule on a body that is absent or lacks one of campaign_id,
\* day_of_week, start_time, end_time answers the MissingField client error, whether or
\* not the campaign exists, and leaves the stores unchanged
C7_MissingField ==
    [][(ScheduleCall /\ LacksField)' =>
         /\ last'.status = 400
         /\ last'.error = MissingField
         /\ schedules' = schedules
         /\ campaigns' = campaigns]_vars

\* a body with a campaign_id but no end_time was rejected while no campaign exists
C7_Witness ==
    /\ ScheduleCall /\ LacksField /\ ~last.req.null
    /\ "campaign_id" \in DOMAIN last.req.obj /\ "end_time" \notin DOMAIN last.req.obj
    /\ campaigns = {}
    /\ last.status = 400 /\ last.error = MissingField

\* the body holds the four keys and its campaign_id names no campaign
UnknownCampaign ==
    /\ ScheduleCallWithKeys
    /\ \A c \in campaigns : JInt(c.id) # last.req.obj["campaign_id"]

\* C8: create_schedule with a campaign_id that references no existing campaign is
\* rejected with CampaignNotFound, a client error, and the schedule store is unchanged
C8_CampaignNotFound ==
    [][UnknownCampaign' =>
         /\ last'.status \in 400..499
         /\ last'.error = CampaignNotFound
         /\ schedules' = schedules]_vars

\* an unknown campaign was reported for a body whose day and time are bad as well,
\* while another campaign exists and holds a schedule
C8_Witness ==
    /\ UnknownCampaign
    /\ last.req.obj["day_of_week"] = JInt(7)
    /\ last.req.obj["start_time"] = JStr(T2400)
    /\ last.error = CampaignNotFound
    /\ \E s \in schedules : s.campaign_id \in CampaignIds

\* C9: every stored schedule's campaign_id refers to a campaign that exists
C9_NoOrphanSchedule == \A s \in schedules : s.campaign_id \in CampaignIds

\* a schedule for a campaign that was deleted together with its schedules is refused
C9_Witness ==
    /\ ScheduleCall /\ last.error = CampaignNotFound
    /\ campaigns = {} /\ nextCampaignId > 1 /\ nextScheduleId > 1

\* C10: a successful delete_campaign removes the campaign and exactly its schedules;
\* every other campaign and every other schedule is left unchanged
C10_DeleteFrame ==
    [][(last'.op = "delete_campaign" /\ last'.status = 200) =>
         /\ \E c \in campaigns :
               /\ c.id = last'.req.campaign_id
               /\ campaigns' = campaigns \ {c}
         /\ schedules' = {s \in schedules : s.campaign_id # last'.req.campaign_id}]_vars

\* a campaign with a schedule was deleted and another campaign keeps its schedule
C10_Witness ==
    /\ last.op = "delete_campaign" /\ last.status = 200
    /\ Cardinality(schedules) < nextScheduleId - 1
    /\ \E s \in schedules : s.campaign_id \in CampaignIds

\* get_schedules ran on the last request (the caller is logged in)
QueryCall == last.op = "get_schedules" /\ last.user # Anonymous

\* the ids of the schedules the last response lists
ResultIds == {r.id : r \in last.out.schedule}

\* the calendar: the weekday, Monday = 0, of the dates requested
CalendarWeekday(cs) ==
    CASE cs = D0101 -> 0
      [] cs \in {D0103, DShort} -> 2
      [] cs \in {D0104, D0229} -> 3

\* the dates requested that are calendar dates in YYYY-MM-DD form
ValidDates == {D0101, D0103, D0104, D0229}

\* the stored schedules the date of the last request selects
OnRequestedDate ==
    IF last.req.date.t = "str" /\ last.req.date.s # <<>>
    THEN {s \in schedules : s.day_of_week = CalendarWeekday(last.req.date.s)}
    ELSE schedules

\* the campaign that owns a schedule
Owner(s) == CHOOSE c \in campaigns : c.id = s.campaign_id

\* the stored schedules the role of the caller lets it see
VisibleTo(u) ==
    IF users[u].role = "client"
    THEN {s \in schedules : Owner(s).client_id = u}
    ELSE schedules

\* C11: a successful get_schedules by a client lists, of the schedules its date
\* selects, exactly those whose campaign has the caller as client_id, none of a
\* campaign of another client or of nobody; by an admin or viewer it lists them all
C11_ClientScope ==
    (QueryCall /\ last.status = 200) =>
        /\ users[last.user].role = "client" =>
              ResultIds = {s.id : s \in {x \in OnRequestedDate :
                                            Owner(x).client_id = last.user}}
        /\ users[last.user].role \in {"admin", "viewer"} =>
              ResultIds = {s.id : s \in OnRequestedDate}

\* a client was shown its own schedule and not the stored schedule of another
\* client's campaign
C11_Witness ==
    /\ QueryCall /\ last.status = 200 /\ users[last.user].role = "client"
    /\ ResultIds # {}
    /\ \E s \in OnRequestedDate : Owner(s).client_id \notin {last.user, None}
    /\ \E s \in schedules : Owner(s).client_id # last.user /\ s.id \notin ResultIds

\* C12: get_schedules with a valid date lists, of the schedules visible to the caller,
\* exactly those whose day_of_week is the weekday of the date (Monday = 0 .. Sunday =
\* 6); without a date it lists every schedule visible to the caller
C12_WeekdayFilter ==
    /\ (QueryCall /\ last.req.date.t = "str" /\ last.req.date.s \in ValidDates) =>
          /\ last.status = 200
          /\ \A s \in VisibleTo(last.user) :
                s.id \in ResultIds <=> s.day_of_week = CalendarWeekday(last.req.date.s)
    /\ (QueryCall /\ last.req.date.t = "null") =>
          /\ last.status = 200
          /\ \A s \in VisibleTo(last.user) : s.id \in ResultIds

\* a query for a Thursday listed a Thursday schedule and left out a stored schedule
\* of another day that the caller may see
C12_Witness ==
    /\ QueryCall /\ last.req.date = JStr(D0104)
    /\ \E s \in VisibleTo(last.user) : s.day_of_week = 3 /\ s.id \in ResultIds
    /\ \E s \in VisibleTo(last.user) : s.day_of_week # 3 /\ s.id \notin ResultIds

\* the table Monday .. Sunday
DayNames ==
    [d \in 0..6 |-> CASE d = 0 -> "Monday" [] d = 1 -> "Tuesday" [] d = 2 -> "Wednesday"
                      [] d = 3 -> "Thursday" [] d = 4 -> "Friday" [] d = 5 -> "Saturday"
                      [] d = 6 -> "Sunday"]

\* the last response lists schedule s under the name of its day
ListedWithDayName(s) ==
    \E r \in last.out.schedule : r.id = s.id /\ r.day_name = DayNames[s.day_of_week]

\* C13 as stated: a stored schedule is listed, with the table's name of its day, by a
\* get_schedules whose date has its weekday, and is not listed for another weekday
C13_Original ==
    (QueryCall /\ last.req.date.t = "str" /\ last.req.date.s \in ValidDates) =>
        \A s \in schedules :
            IF s.day_of_week = CalendarWeekday(last.req.date.s)
            THEN ListedWithDayName(s)
            ELSE s.id \notin ResultIds

\* C13 amended: a stored schedule, from either creation path, is listed with the
\* table's name of its day by a get_schedules whose date has its weekday and whose
\* caller is an admin, a viewer or the client of its campaign; it is listed for no
\* date of another weekday
C13_RoundTrip ==
    (QueryCall /\ last.req.date.t = "str" /\ last.req.date.s \in ValidDates) =>
        \A s \in schedules :
            IF s.day_of_week = CalendarWeekday(last.req.date.s)
            THEN s \in VisibleTo(last.user) => ListedWithDayName(s)
            ELSE s.id \notin ResultIds

\* a query for a Wednesday listed a schedule of the batch as Wednesday and not the
\* Thursday schedule created on its own
C13_Witness ==
    /\ QueryCall /\ last.req.date = JStr(D0103)
    /\ \E r \in last.out.schedule : r.day_of_week = 2 /\ r.day_name = "Wednesday"
    /\ \E s \in schedules : s.day_of_week = 3 /\ s.id \notin ResultIds

\* YYYY-MM-DD: four digits, two digits, two digits
StrictDateForm(cs) ==
    /\ Len(cs) = 10
    /\ \A i \in {1, 2, 3, 4, 6, 7, 9, 10} : cs[i] \in Digits
    /\ cs[5] = "-" /\ cs[8] = "-"

\* C14: get_schedules with a date that is not in YYYY-MM-DD form answers a client
\* error, lists no schedule and leaves the campaign and schedule stores unchanged
C14_BadDateRejected ==
    [][(/\ QueryCall
        /\ last.req.date.t = "str" /\ last.req.date.s # <<>>
        /\ ~StrictDateForm(last.req.date.s))' =>
          /\ last'.status \in 400..499
          /\ campaigns' = campaigns /\ schedules' = schedules]_vars

\* what the values requested stand for: the integer of a day_of_week ...
DayRequested(x) ==
    CASE x.t = "int" -> x.n
      [] x = JStr(<<"6">>) -> 6
      [] x = JFloat(65) -> 6

\* ... and the <<hour, minute>> of a time
TimeRequested(x) ==
    CASE x.s \in {T0900, T900} -> <<9, 0>>
      [] x.s = T95 -> <<9, 5>>
      [] x.s = T1700 -> <<17, 0>>
      [] x.s = T2359 -> <<23, 59>>

\* C15: a successful create_schedule adds exactly one schedule, attached to the given
\* campaign, with the day_of_week, start_time and end_time parsed from the request and
\* the is_active supplied (true when none is); it returns that schedule with status
\* 201 and changes no other schedule and no campaign
C15_CreateScheduleEffect ==
    [][(last'.op = "create_schedule" /\ last'.status = 201) =>
         LET data == last'.req.obj
             new == schedules' \ schedules
         IN  /\ Cardinality(new) = 1
             /\ schedules \subseteq schedules'
             /\ campaigns' = campaigns
             /\ new = {last'.out}
             /\ \A s \in schedules : s.id # last'.out.id
             /\ last'.out.campaign_id = data["campaign_id"].n
             /\ last'.out.campaign_id \in CampaignIds
             /\ last'.out.day_of_week = DayRequested(data["day_of_week"])
             /\ last'.out.start_time = TimeRequested(data["start_time"])
             /\ last'.out.end_time = TimeRequested(data["end_time"])
             /\ last'.out.is_active = IF "is_active" \in DOMAIN data
                                      THEN data["is_active"] = JBool(TRUE)
                                      ELSE TRUE]_vars

\* a schedule with is_active false was created next to a schedule that was stored
\* before
C15_Witness ==
    /\ last.op = "create_schedule" /\ last.status = 201
    /\ "is_active" \in DOMAIN last.req.obj
    /\ last.req.obj["is_active"] = JBool(FALSE) /\ ~last.out.is_active
    /\ last.out \in schedules
    /\ \E s \in schedules : s.id < last.out.id /\ s.is_active

\* a request of create_campaign is between its flush and its commit
InFlight == tx.phase = "flushed"

\* the items of a batch that the loop accepts
Accepted(items) == {i \in DOMAIN items : schedule_item_outcome(items[i]) = "added"}

\* C16: create_campaign stores the campaign and its accepted schedules atomically:
\* while the request is between flush and commit neither the campaign nor any of its
\* schedules is stored, and every step of it, a failure or crash included, leaves the
\* stores as they are or stores the campaign together with all accepted schedules
C16_AtomicBatch ==
    /\ [](InFlight => /\ tx.campaign \notin campaigns
                      /\ \A s \in schedules : s.campaign_id # tx.campaign.id)
    /\ [][InFlight =>
            \/ campaigns' = campaigns /\ schedules' = schedules
            \/ /\ ~InFlight' /\ last'.status = 201
               /\ campaigns' = campaigns \cup {tx.campaign}
               /\ schedules \subseteq schedules'
               /\ Cardinality(schedules' \ schedules) = Cardinality(Accepted(tx.items))
               /\ \A s \in schedules' \ schedules : s.campaign_id = tx.campaign.id]_vars

\* the process died after the loop had accepted the first of two items; a campaign
\* committed earlier is stored, nothing of the interrupted request is
C16_Witness ==
    /\ last.op = "crash" /\ last.req.i = 2 /\ Len(last.req.schedules) = 2
    /\ 1 \in Accepted(last.req.schedules)
    /\ campaigns # {} /\ schedules = {}

\* C17: when the write of the activity log fails after create_schedule,
\* create_campaign or delete_campaign has committed, the request still returns its
\* success response and what it committed stays stored
C17_LogFailureSwallowed ==
    [][(last' # last /\ last'.op # "crash" /\ last'.req.fault = "log") =>
         /\ (last'.op = "create_schedule"
               /\ create_schedule(last'.user, last'.req.body).status = 201)
            => /\ last'.status = 201
               /\ last'.out \in schedules' /\ last'.out \notin schedules
         /\ (last'.op = "create_campaign" /\ InFlight
               /\ create_campaign(tx.user, tx.body, tx.items).status = 201)
            => /\ last'.status = 201
               /\ last'.out.campaign \in campaigns'
               /\ last'.out.schedules \subseteq schedules'
         /\ (last'.op = "delete_campaign"
               /\ delete_campaign(last'.user, last'.req.campaign_id).status = 200)
            => /\ last'.status = 200
               /\ last'.out \in campaigns /\ last'.out \notin campaigns'
               /\ \A s \in schedules' : s.campaign_id # last'.out.id]_vars

\* a schedule was created and stored, the response is 201, the log entry is missing
C17_Witness ==
    /\ last.op = "create_schedule" /\ last.req.fault = "log"
    /\ last.status = 201 /\ last.activity = ""
    /\ last.out \in schedules

\* C18: when the commit of create_schedule or create_campaign fails, the caller gets
\* the generic server failure without the text of the error, and the campaign and
\* schedule stores are as they were before the request
C18_CommitFailure ==
    [][(/\ last' # last /\ last'.op \in {"create_schedule", "create_campaign"}
        /\ last'.req.fault = "commit"
        /\ \/ /\ last'.op = "create_schedule"
              /\ create_schedule(last'.user, last'.req.body).status = 201
           \/ last'.op = "create_campaign" /\ InFlight) =>
          /\ last'.status = 500
          /\ last'.error = IF last'.op = "create_schedule" THEN FailedCreateSchedule
                           ELSE FailedCreateCampaign
          /\ last'.error # CommitError
          /\ campaigns' = campaigns /\ schedules' = schedules]_vars

\* the commit of a campaign with an accepted schedule failed while another campaign
\* was stored
C18_Witness ==
    /\ last.op = "create_campaign" /\ last.req.fault = "commit" /\ last.status = 500
    /\ Accepted(last.req.schedules) # {}
    /\ campaigns # {} /\ nextCampaignId = Cardinality(campaigns) + 1

LocationOps == {"create_location", "update_location", "delete_location"}

\* the role the database holds for the user of a cookie ("" without a session)
StoredRole(cookie) ==
    IF cookie.user_id = Anonymous THEN "" ELSE users[cookie.user_id].role

\* C19: the three location handlers change the location store only for a
\* request that carries a session whose user is an admin by the role stored
\* now, whatever role the session cached at login; a request without a session
\* is redirected to the login page and one of a non-admin is redirected away,
\* and in both cases no location is created, changed or removed.
C19_LocationAdminOnly ==
    [][/\ locations' # locations =>
            /\ last'.op \in LocationOps
            /\ last'.req.cookie.user_id # Anonymous
            /\ StoredRole(last'.req.cookie) = "admin"
       /\ (last'.op \in LocationOps /\ last'.req.cookie.user_id = Anonymous) =>
            /\ last'.status = 302
            /\ last'.error = LoginRedirect
            /\ locations' = locations
       /\ (last'.op \in LocationOps /\ last'.req.cookie.user_id # Anonymous
              /\ StoredRole(last'.req.cookie) # "admin") =>
            /\ last'.status = 302
            /\ last'.error = DashboardRedirect
            /\ locations' = locations]_vars

\* a session that cached the admin role, of a user who is stored as a viewer
\* now, was redirected away by a location handler while a location exists
C19_Witness ==
    /\ last.op \in LocationOps
    /\ last.req.cookie.role = "admin"
    /\ StoredRole(last.req.cookie) = "viewer"
    /\ last.status = 302
    /\ last.error = DashboardRedirect
    /\ locations # {}

ModifyOps == {"update_campaign", "delete_campaign"}

\* the campaign a request to update or delete addresses, as stored before it
Addressed(req) == {c \in campaigns : c.id = req.campaign_id}

IsCreator(u, c) == c.created_by = u

IsAssignedClient(u, c) == c.client_id = u

IsAdmin(u) == users[u].role = "admin"

ListingCall == last.op = "get_campaigns" /\ last.user # Anonymous

ListedCampaignIds == {r.id : r \in last.out}

\* C21: get_campaigns returns every campaign to an admin, exactly the campaigns
\* whose client_id is the caller to a client, and exactly the campaigns with
\* status active to any other role; a client never receives a campaign assigned
\* to another client.
C21_CampaignListing ==
    ListingCall =>
        /\ last.status = 200
        /\ users[last.user].role = "admin" =>
              ListedCampaignIds = {c.id : c \in campaigns}
        /\ users[last.user].role = "client" =>
              /\ ListedCampaignIds = {c.id : c \in {x \in campaigns : x.client_id = last.user}}
              /\ \A r \in last.out : r.client = last.user
        /\ users[last.user].role \notin {"admin", "client"} =>
              ListedCampaignIds = {c.id : c \in {x \in campaigns : x.status = <<"active">>}}

\* a client listed the campaigns while one active campaign is assigned to it and
\* another active one to a different client, and got its own only
C21_Witness ==
    /\ ListingCall
    /\ users[last.user].role = "client"
    /\ Cardinality(last.out) = 1
    /\ \E c \in campaigns : c.client_id \notin {None, last.user} /\ c.status = <<"active">>

LifecycleStatuses == {<<"draft">>, <<"active">>, <<"paused">>, <<"completed">>}

\* C27: in every state reachable through create_campaign and update_campaign,
\* every campaign's status is one of draft, active, paused, completed.
C27_StatusInLifecycle == \A c \in campaigns : c.status \in LifecycleStatuses

\* C22: every schedule stored from a create_campaign batch is attached to the
\* campaign created by that same request and to no other campaign, whatever
\* campaign_id value the batch item itself carries.
C22_BatchBoundToNewCampaign ==
    [][last'.op = "create_campaign" =>
         \A s \in schedules' \ schedules :
            /\ last'.status = 201
            /\ s.campaign_id = last'.out.campaign.id
            /\ last'.out.campaign \in campaigns' \ campaigns
            /\ \A c \in campaigns : c.id # s.campaign_id]_vars

\* a batch with an item naming the stored campaign 1 was stored under the new
\* campaign 2
C22_Witness ==
    /\ last.op = "create_campaign"
    /\ last.status = 201
    /\ last.out.campaign.id = 2
    /\ \E c \in campaigns : c.id = 1
    /\ \E i \in DOMAIN last.req.schedules :
          /\ "campaign_id" \in DOMAIN last.req.schedules[i].obj
          /\ last.req.schedules[i].obj["campaign_id"].n = 1
    /\ \E s \in last.out.schedules : s \in schedules /\ s.campaign_id = 2

\* C23 as stated: a stored schedule can be destroyed individually, leaving its
\* campaign and that campaign's other schedules in place, as well as through the
\* cascade when its campaign is deleted; these are the only two ways a schedule
\* leaves the store.
C23_Original ==
    [][/\ (last'.op = "delete_schedule" /\ last'.user # Anonymous) =>
            \A s \in schedules : s.id = last'.req.schedule_id =>
                /\ schedules' = schedules \ {s}
                /\ campaigns' = campaigns
       /\ last'.op = "delete_campaign" =>
            \A s \in schedules \ schedules' :
                s.campaign_id = last'.req.campaign_id
                  /\ \A c \in campaigns' : c.id # s.campaign_id
       /\ schedules \ schedules' # {} =>
            last'.op \in {"delete_schedule", "delete_campaign"}]_vars

\* C23 amended: a stored schedule leaves the store only through the cascade of
\* a successful delete_campaign, which removes exactly the schedules of the
\* deleted campaign together with it; a request for a single schedule is
\* answered 404 and removes nothing.
C23_OnlyCascade ==
    [][/\ schedules \ schedules' # {} =>
            /\ last'.op = "delete_campaign"
            /\ last'.status = 200
            /\ schedules \ schedules'
                 = {s \in schedules : s.campaign_id = last'.req.campaign_id}
            /\ \A c \in campaigns' : c.id # last'.req.campaign_id
       /\ last'.op = "delete_schedule" =>
            /\ last'.status = 404
            /\ schedules' = schedules
            /\ campaigns' = campaigns]_vars

\* a campaign was deleted and took its schedule with it, while the schedule of
\* another campaign is still stored
C23_Witness ==
    /\ last.op = "delete_campaign"
    /\ last.status = 200
    /\ Cardinality(schedules) = 1
    /\ nextScheduleId = 3
    /\ \A s \in schedules : \E c \in campaigns : c.id = s.campaign_id

\* what a campaign's status and dates are replaced by in a second store
CampaignVariations ==
    {[status |-> <<"draft">>, start_date |-> NoDate, end_date |-> NoDate],
     [status |-> <<"active">>, start_date |-> <<2024, 1, 1>>, end_date |-> <<2024, 1, 1>>],
     [status |-> <<"completed">>, start_date |-> <<2025, 6, 30>>, end_date |-> NoDate],
     [status |-> <<"paused">>, start_date |-> NoDate, end_date |-> <<2023, 12, 31>>]}

VariantCampaigns(f) ==
    {[c EXCEPT !.status = f[c.id].status, !.start_date = f[c.id].start_date,
               !.end_date = f[c.id].end_date] : c \in campaigns}

VariantSchedules(g) == {[s EXCEPT !.is_active = g[s.id]] : s \in schedules}

\* C24: the set of schedules returned by get_schedules does not depend on the
\* owning campaign's start_date, end_date or status, nor on the schedule's
\* is_active flag: a store that differs from the one queried only in those
\* fields yields the same set of schedule ids for the same caller and date.
C24_IndependentOfStatusAndDates ==
    (QueryCall /\ last.status = 200) =>
        \A f \in [{c.id : c \in campaigns} -> CampaignVariations],
           g \in [{s.id : s \in schedules} -> BOOLEAN] :
            {s.id : s \in select_schedules(last.user, last.req.date,
                                           VariantCampaigns(f), VariantSchedules(g))}
              = ResultIds

\* the schedules of Wednesday 2024-01-03 were listed, among them an inactive
\* one and one of a draft campaign that ended on 2024-01-01
C24_Witness ==
    /\ QueryCall
    /\ last.status = 200
    /\ last.req.date = JStr(D0103)
    /\ \E r \in last.out.schedule : ~r.is_active
    /\ \E r \in last.out.schedule :
          /\ r.campaign_status = <<"draft">>
          /\ r.campaign_end_date = <<"2", "0", "2", "4", "-", "0", "1", "-", "0", "1",
                                     "T", "0", "0", ":", "0", "0", ":", "0", "0">>

\* the date a response's ISO string names; <<>> for null
DateShown(cs) ==
    IF cs = <<>> THEN <<>>
    ELSE <<DecimalValue(SubSeq(cs, 1, 4)), DecimalValue(SubSeq(cs, 6, 7)),
           DecimalValue(SubSeq(cs, 9, 10))>>

\* C25: the campaign fields attached to each schedule returned by get_schedules
\* (name, status, start and end date) are the campaign's at query time, so that
\* after an update_campaign every later get_schedules shows the new values for
\* all schedules of that campaign; no schedule row stores a copy of them.
C25_ReadTimeJoin ==
    /\ (QueryCall /\ last.status = 200) =>
          \A r \in last.out.schedule :
             \E c \in campaigns :
                /\ c.id = r.campaign_id
                /\ r.campaign_name = c.name
                /\ r.campaign_status = c.status
                /\ DateShown(r.campaign_start_date) = c.start_date
                /\ DateShown(r.campaign_end_date) = c.end_date
    /\ \A s \in schedules :
          DOMAIN s = {"id", "campaign_id", "day_of_week", "start_time", "end_time",
                      "is_active"}

\* a schedule stored under the name A, status draft and start 2024-01-01 is
\* listed with name B, status active and start 2024-02-01
C25_Witness ==
    /\ QueryCall
    /\ last.status = 200
    /\ \E r \in last.out.schedule :
          /\ r.campaign_id = 1
          /\ r.campaign_name = <<"B">>
          /\ r.campaign_status = <<"active">>
          /\ DateShown(r.campaign_start_date) = <<2024, 2, 1>>
          /\ r.campaign_end_date = <<>>

Roles == {"admin", "client", "viewer"}

\* the value a body of update_user_role names as role, if any, is none of the three
NamesOtherRole(body) ==
    /\ ~body.null
    /\ "role" \in DOMAIN body.obj
    /\ ~(body.obj["role"].t = "str"
           /\ body.obj["role"].s \in {<<"admin">>, <<"client">>, <<"viewer">>})

\* C26: in every state reachable through register, update_user_role,
\* update_profile and toggle_user_status, every user's role is one of admin,
\* client, viewer: register always creates a viewer, and update_user_role
\* rejects any other value with a client error and leaves the role unchanged.
C26_RolesValid ==
    /\ [](\A u \in DOMAIN users : users[u].role \in Roles)
    /\ [][/\ (last'.op = "register" /\ users' # users) =>
               /\ \A u \in DOMAIN users : users'[u] = users[u]
               /\ \A u \in DOMAIN users' \ DOMAIN users : users'[u].role = "viewer"
          /\ (/\ last'.op = "update_user_role"
              /\ last'.req.cookie.user_id # Anonymous
              /\ users[last'.req.cookie.user_id].role = "admin"
              /\ last'.req.user_id \in DOMAIN users
              /\ NamesOtherRole(last'.req.body)) =>
               /\ last'.status = 400
               /\ users' = users]_vars

\* the admin asked for the role owner for a registered user and was refused
C26_Witness ==
    /\ last.op = "update_user_role"
    /\ last.status = 400
    /\ "role" \in DOMAIN last.req.body.obj
    /\ last.req.body.obj["role"] = JStr(<<"owner">>)
    /\ last.req.user_id \in DOMAIN users \ UserIds
    /\ users[last.req.user_id].role = "viewer"

\* the user a login form or a demo login names
Named(username) == {u \in DOMAIN users : users[u].username = username}

\* C28: a session is established only for a user whose is_active flag is true
\* at that moment: login and demo_login never set user_id for an inactive user,
\* so a user deactivated by delete_account or toggle_user_status cannot log in
\* until is_active is true again.
C28_SessionOnlyForActive ==
    [][/\ \A c \in sessions' \ sessions :
             /\ last'.op \in {"login", "demo_login"}
             /\ c.user_id \in Named(last'.req.username)
             /\ users[c.user_id].is_active
       /\ (/\ last'.op \in {"login", "demo_login"}
           /\ \E u \in Named(last'.req.username) : ~users[u].is_active) =>
             /\ sessions' = sessions
             /\ last'.error # ""]_vars

\* client1, deactivated, gave its right password and was refused
C28_Witness ==
    /\ last.op = "login"
    /\ last.error = InvalidLogin
    /\ \E u \in Named(last.req.username) :
          /\ users[u].password = last.req.password
          /\ ~users[u].is_active

(***************************************************************************)
(* C29: when a create_schedule request and a delete_campaign request for  *)
(* the same campaign run concurrently, then whatever the order of           *)
(* create_schedule's existence check, its insert and the delete, once both  *)
(* requests are answered no stored schedule names a campaign that no longer *)
(* exists.                                                                  *)
(***************************************************************************)
C29_NoScheduleOfDeletedCampaign ==
    tx.phase = "idle" => \A s \in schedules : s.campaign_id \in CampaignIds


(***************************************************************************)
(* C30: the outcome of create_schedule depends only on the request body    *)
(* and the stores, not on the caller: whenever a logged-in user's request   *)
(* is answered, every other user, whatever their role and whether or not   *)
(* they created or are assigned the campaign, would have got the same       *)
(* response on the same body and stores, and the schedule store changes as  *)
(* that response says.                                                      *)
(***************************************************************************)
ReplyOf(request) ==
    Reply(request.status, request.error, request.activity, request.out)

C30_SameOutcomeForAnyCaller ==
    [][(last'.op = "create_schedule" /\ last'.user # Anonymous) =>
          \A caller \in UserIds :
             LET reply == create_schedule(caller, last'.req)
             IN  /\ reply = ReplyOf(last')
                 /\ schedules' = IF reply.status = 201
                                   THEN schedules \cup {reply.out} ELSE schedules]_vars

\* the client created a schedule in a campaign of the admin's that is not theirs
C30_Witness ==
    /\ last.op = "create_schedule"
    /\ last.status = 201
    /\ ~is_admin(users[last.user])
    /\ \E c \in campaigns : /\ c.id = last.out.campaign_id
                            /\ c.created_by # last.user
                            /\ c.client_id # last.user

====
